---- MODULE Spec2Model ----
(***************************************************************************)
(* Sub-One: subscription ingestion pipeline (SubscriptionParser), node     *)
(* processor (filtering, label prefixing), de-duplication (getUniqueKey,   *)
(* deduplicateNodes) and the combined node list served to clients.         *)
(*                                                                         *)
(* Representation of strings.  A display name is a sequence of units, a    *)
(* unit being one character ("a", "H", " ", "#", "%") or one percent       *)
(* escape ("%20", "%23", "%25").  A share-URI  scheme://body#f1#f2  is the *)
(* record [scheme, body, frags]: frags are the '#'-free pieces after each  *)
(* '#', so lastIndexOf('#') selects the last piece and indexOf('#') the    *)
(* end of body.  A body is either plain authority text (of which only the  *)
(* host is kept) or Base64 text standing for the text it decodes to.       *)
(***************************************************************************)
EXTENDS Integers, Sequences, FiniteSets, TLC

VARIABLES op, pc, inContent, inNodes, inSubName, inOptions, attempts, filtered, returned, raised,
          subs, manualNodes, manualNodesCurrentPage, toast, prevOp,
          inProxy, encoded, decoded, target, document,
          subscriptions, subsCurrentPage, profiles, profilesCurrentPage, uuids,
          updating,
          kv, now, reqs, sent, issued, reply,
          dirty, saveState, timers

vars == <<op, pc, inContent, inNodes, inSubName, inOptions, attempts, filtered, returned, raised,
          subs, manualNodes, manualNodesCurrentPage, toast, prevOp,
          inProxy, encoded, decoded, target, document,
          subscriptions, subsCurrentPage, profiles, profilesCurrentPage, uuids,
          updating,
          kv, now, reqs, sent, issued, reply,
          dirty, saveState, timers>>

\* the state of the dashboard's manual node list, and the sources of a request
uiVars == <<manualNodes, manualNodesCurrentPage, toast, prevOp>>

\* the arguments and results of the codec and of the config generator
genVars == <<inProxy, encoded, decoded, target, document>>

\* the arguments and results of the parser and of the request pipeline
coreVars == <<inContent, inNodes, inSubName, inOptions, attempts, filtered, returned, raised, subs>>

\* the dashboard's subscription and profile lists, and the UUIDs drawn so far
dashVars == <<subscriptions, subsCurrentPage, profiles, profilesCurrentPage, uuids>>

\* the dashboard's count refresh in flight
asyncVars == <<updating>>

\* the worker's KV namespace, its clock, the requests in flight, the Telegram
\* messages delivered, the session tokens issued and the last response
srvVars == <<kv, now, reqs, sent, issued, reply>>

\* the state of useAppPersistence, and its pending setTimeout callbacks
persistVars == <<dirty, saveState, timers>>

\* the state outside the parser, the manual node list and the generator
extVars == <<dashVars, asyncVars, srvVars, persistVars>>

(***************************** string helpers ******************************)

\* String.prototype.toLowerCase on the tokens and units the model uses
toLowerCase(t) ==
    CASE t = "H" -> "h"
      [] t = "VLESS" -> "vless"
      [] t = "VMESS" -> "vmess"
      [] t = "TROJAN" -> "trojan"
      [] t = "SS" -> "ss"
      [] t = "K" -> "k"
      [] t = "HTTPS" -> "https"
      [] t = "KEEP:" -> "keep:"
      [] t = "PROTO:" -> "proto:"
      [] OTHER -> t

LowerSeq(s) == [i \in 1..Len(s) |-> toLowerCase(s[i])]

\* String.prototype.startsWith on unit sequences
startsWith(s, p) == Len(p) <= Len(s) /\ SubSeq(s, 1, Len(p)) = p

\* substring search, as an un-anchored literal regular expression does it
Includes(s, p) == \E i \in 0..(Len(s) - Len(p)) : SubSeq(s, i + 1, i + Len(p)) = p

\* a unit that is itself the text of an escape is encoded through its '%'
encodeUnit(u) ==
    CASE u = " " -> "%20"
      [] u = "#" -> "%23"
      [] u = "%" -> "%25"
      [] u = "%20" -> "%2520"
      [] u = "%23" -> "%2523"
      [] u = "%25" -> "%2525"
      [] OTHER -> u

decodeUnit(u) ==
    CASE u = "%20" -> " "
      [] u = "%23" -> "#"
      [] u = "%25" -> "%"
      [] u = "%2520" -> "%20"
      [] u = "%2523" -> "%23"
      [] u = "%2525" -> "%25"
      [] OTHER -> u

encodeURIComponent(s) == [i \in 1..Len(s) |-> encodeUnit(s[i])]

\* decodeURIComponent throws URIError on a '%' that starts no escape
decodeThrows(s) == \E i \in 1..Len(s) : s[i] = "%"

decodeURIComponent(s) == [i \in 1..Len(s) |-> decodeUnit(s[i])]

\* replace(/\s/g, '')
RECURSIVE stripWhitespace(_)
stripWhitespace(s) ==
    IF s = <<>> THEN <<>>
    ELSE IF Head(s) = " " THEN stripWhitespace(Tail(s))
    ELSE <<Head(s)>> \o stripWhitespace(Tail(s))

(************************** Base64 and JSON text ***************************)

\* A JSON text: obj says whether JSON.parse yields an object, pairs are its
\* members in textual order, ws says whether the text has layout whitespace.
NoJson == [obj |-> FALSE, pairs |-> <<>>, ws |-> FALSE]

\* the query parameters of a share-URI that the model keeps; <<>> is an
\* absent parameter
NoQuery == [security |-> "", pbk |-> <<>>, sid |-> <<>>]

\* JSON.stringify of an object with the given members
JSONstringify(pairs) == [obj |-> TRUE, pairs |-> pairs, ws |-> FALSE]

\* encodeBase64 / btoa of a text: the body that decodes to it
encodeBase64(json) ==
    [enc |-> "b64", user |-> <<>>, host |-> <<>>, port |-> 0, query |-> NoQuery, json |-> json]

\* atob / decodeBase64 of the text after scheme://  (body and every '#...')
\* throws InvalidCharacterError unless the whole of it is Base64
atobThrows(url) == url.frags # <<>> \/ url.body.enc # "b64"

atob(url) == url.body.json

\* obj[key] = value on an object with ordered members
SetMember(pairs, k, v) ==
    IF \E i \in 1..Len(pairs) : pairs[i].k = k
    THEN [i \in 1..Len(pairs) |-> IF pairs[i].k = k THEN [k |-> k, v |-> v] ELSE pairs[i]]
    ELSE Append(pairs, [k |-> k, v |-> v])

HasMember(pairs, k) == \E i \in 1..Len(pairs) : pairs[i].k = k

GetMember(pairs, k) == (CHOOSE i \in 1..Len(pairs) : pairs[i].k = k)

(****************************** parseNodeLine ******************************)

supportedProtocols ==
    {"ss", "ssr", "vmess", "vless", "trojan", "hysteria", "hysteria2", "hy", "hy2",
     "tuic", "anytls", "socks", "socks5", "http", "https"}

\* fixed fallback names
Unnamed == <<"U">>
VMessDefault == <<"M">>
VlessDefault == <<"L">>
TrojanDefault == <<"T">>

\* /^(ss|ssr|...):\/\//i tested on the trimmed line
isNodeUrl(line) == toLowerCase(line.scheme) \in supportedProtocols

\* new URL(url).hostname for a scheme without a handler: the authority host,
\* which for a Base64 body is a piece of the Base64 text
OpaqueHost == <<"e">>

hostname(url) == IF url.body.enc = "b64" THEN OpaqueHost ELSE url.body.host

OrElse(s, d) == IF s = <<>> THEN d ELSE s

extractNodeNameFromUrl(url) ==
    CASE url.scheme = "vmess" ->
            IF atobThrows(url) \/ ~url.body.json.obj THEN VMessDefault
            ELSE LET p == atob(url).pairs
                     ps == IF HasMember(p, "ps") THEN p[GetMember(p, "ps")].v ELSE <<>>
                     add == IF HasMember(p, "add") THEN p[GetMember(p, "add")].v ELSE <<>>
                 IN OrElse(ps, OrElse(add, VMessDefault))
      [] url.scheme = "vless" -> OrElse(url.body.host, VlessDefault)
      [] url.scheme = "trojan" -> OrElse(url.body.host, TrojanDefault)
      [] OTHER -> OrElse(hostname(url), Unnamed)

\* the Node for one line; callers test isNodeUrl first (null otherwise)
parseNodeLine(line) ==
    LET raw == IF line.frags = <<>> THEN <<>> ELSE line.frags[Len(line.frags)]
        fragName == IF decodeThrows(raw) THEN raw ELSE decodeURIComponent(raw)
        name == IF fragName = <<>> THEN extractNodeNameFromUrl(line) ELSE fragName
    IN [name |-> OrElse(name, Unnamed), url |-> line, protocol |-> line.scheme]

parseNodeLines(lines) ==
    LET keep(l) == isNodeUrl(l)
        kept == SelectSeq(lines, keep)
    IN [i \in 1..Len(kept) |-> parseNodeLine(kept[i])]

(****************************** processNodes *******************************)

\* A rule line of options.exclude, after trim: the text  keep proto rest
\* where keep is "" or a spelling of "keep:", proto is "" or a spelling of
\* "proto:", and rest is the comma list protos (when proto is present) or
\* the free text.
isKeepRule(r) == toLowerCase(r.keep) = "keep:"

isProtoRule(r) == toLowerCase(r.proto) = "proto:"

\* the Set filled by  split(',').forEach(p => set.add(p.trim().toLowerCase()))
protocolSet(rules) ==
    UNION { { toLowerCase(rules[i].protos[j]) : j \in 1..Len(rules[i].protos) } :
            i \in { k \in 1..Len(rules) : isProtoRule(rules[k]) } }

\* nameRegexParts: the free text of the rules that are not proto: rules
nameRegexParts(rules) ==
    LET isText(r) == ~isProtoRule(r)
        texts == SelectSeq(rules, isText)
    IN [i \in 1..Len(texts) |-> texts[i].text]

\* new RegExp(parts.join('|'), 'i') throws SyntaxError on an unbalanced '('
RegExpThrows(parts) == \E i \in 1..Len(parts) : \E j \in 1..Len(parts[i]) : parts[i][j] = "("

\* nameRegex && nameRegex.test(name): parts are literal, case-insensitive
regexTest(parts, name) ==
    \E i \in 1..Len(parts) : Includes(LowerSeq(name), LowerSeq(parts[i]))

\* keepsNode without the name test
keepsNodeProtocolOnly(keepRules, node) == node.protocol \in protocolSet(keepRules)

\* whitelist predicate of processNodes
keepsNode(keepRules, node) ==
    \/ node.protocol \in protocolSet(keepRules)
    \/ regexTest(nameRegexParts(keepRules), node.name)

\* blacklist predicate of processNodes
excludesNode(rules, node) ==
    \/ node.protocol \in protocolSet(rules)
    \/ regexTest(nameRegexParts(rules), node.name)

\* filterNodes choosing the mode from the first rule alone
filterNodesFirstRule(nodes, rules) ==
    LET keepRules == SelectSeq(rules, isKeepRule)
        whitelist(n) == keepsNode(keepRules, n)
        blacklist(n) == ~excludesNode(rules, n)
    IN IF rules = <<>> THEN [threw |-> FALSE, nodes |-> nodes]
       ELSE IF isKeepRule(rules[1])
       THEN IF RegExpThrows(nameRegexParts(keepRules)) THEN [threw |-> TRUE, nodes |-> <<>>]
            ELSE [threw |-> FALSE, nodes |-> SelectSeq(nodes, whitelist)]
       ELSE IF RegExpThrows(nameRegexParts(rules)) THEN [threw |-> TRUE, nodes |-> <<>>]
            ELSE [threw |-> FALSE, nodes |-> SelectSeq(nodes, blacklist)]

\* the filtering half of processNodes: [threw, nodes]
filterNodes(nodes, rules) ==
    LET keepRules == SelectSeq(rules, isKeepRule)
        whitelist(n) == keepsNode(keepRules, n)
        blacklist(n) == ~excludesNode(rules, n)
    IN IF rules = <<>> THEN [threw |-> FALSE, nodes |-> nodes]
       ELSE IF keepRules # <<>>
       THEN IF RegExpThrows(nameRegexParts(keepRules)) THEN [threw |-> TRUE, nodes |-> <<>>]
            ELSE [threw |-> FALSE, nodes |-> SelectSeq(nodes, whitelist)]
       ELSE IF RegExpThrows(nameRegexParts(rules)) THEN [threw |-> TRUE, nodes |-> <<>>]
            ELSE [threw |-> FALSE, nodes |-> SelectSeq(nodes, blacklist)]

LabelSeparator == <<" ", "-", " ">>

\* url with everything from the last '#' replaced by '#' + encoded name
withFragment(url, name) ==
    [url EXCEPT !.frags = IF url.frags = <<>> THEN <<encodeURIComponent(name)>>
                          ELSE SubSeq(url.frags, 1, Len(url.frags) - 1)
                               \o <<encodeURIComponent(name)>>]

\* prependSubName without the startsWith test
prependSubNameAlways(node, subName) ==
    LET newName == subName \o LabelSeparator \o node.name
    IN [node EXCEPT !.name = newName, !.url = withFragment(node.url, newName)]

\* the body of processed.map(...) in the prefixing half of processNodes
prependSubName(node, subName) ==
    IF startsWith(node.name, subName) THEN node
    ELSE LET newName == subName \o LabelSeparator \o node.name
         IN IF node.protocol = "vmess" /\ node.url.scheme = "vmess"
            THEN IF atobThrows(node.url) \/ ~node.url.body.json.obj
                 THEN [node EXCEPT !.name = newName, !.url = withFragment(node.url, newName)]
                 ELSE [node EXCEPT !.name = newName,
                          !.url = [scheme |-> "vmess",
                                   body |-> encodeBase64(JSONstringify(
                                       SetMember(atob(node.url).pairs, "ps", newName))),
                                   frags |-> <<>>]]
            ELSE [node EXCEPT !.name = newName, !.url = withFragment(node.url, newName)]

\* [threw, nodes, filtered]: filtered is the local `processed` after the
\* filtering block, nodes the value returned
processNodes(nodes, subName, options) ==
    LET f == filterNodes(nodes, options.exclude)
    IN IF f.threw THEN [threw |-> TRUE, nodes |-> <<>>, filtered |-> <<>>]
       ELSE IF options.prependSubName /\ subName # <<>>
       THEN [threw |-> FALSE,
             nodes |-> [i \in 1..Len(f.nodes) |-> prependSubName(f.nodes[i], subName)],
             filtered |-> f.nodes]
       ELSE [threw |-> FALSE, nodes |-> f.nodes, filtered |-> f.nodes]

(*************************** detection strategies **************************)

\* A strategy returns [threw, nodes]
Threw == [threw |-> TRUE, nodes |-> <<>>]

Yield(nodes) == [threw |-> FALSE, nodes |-> nodes]

\* a structured (Clash) proxy; the fields that are absent are empty
NoReality == [present |-> FALSE, pbk |-> <<>>, sid |-> <<>>]

Proxy(type, server, port, uuid, password, cipher, name) ==
    [type |-> type, server |-> server, port |-> port, uuid |-> uuid, password |-> password,
     cipher |-> cipher, name |-> name, tls |-> FALSE, reality |-> NoReality]

\* the text user@host:port?query after scheme://
UriBody(user, host, port, query) ==
    [enc |-> "plain", user |-> user, host |-> host, port |-> port, query |-> query,
     json |-> NoJson]

PlainBody(host, port) == UriBody(<<>>, host, port, NoQuery)

\* btoa / encodeBase64 of a text that is put inside a URI: Base64 text, which
\* has no ':' and is not the text it encodes
Btoa(text) == <<"b64[">> \o text \o <<"]">>

\* btoa throws InvalidCharacterError on a character outside Latin-1
WideUnits == {"U+5BC6"}

btoaThrows(text) == \E i \in 1..Len(text) : text[i] \in WideUnits

\* String(port) for the ports in use, and Number(text) back
PortText(port) ==
    CASE port = 443 -> <<"443">>
      [] port = 444 -> <<"444">>
      [] port = 8388 -> <<"8388">>
      [] OTHER -> <<"0">>

Number(text) ==
    CASE text = <<"443">> -> 443
      [] text = <<"444">> -> 444
      [] text = <<"8388">> -> 8388
      [] OTHER -> 0

\* /^[A-Za-z0-9+\/=]+$/ on the whitespace-stripped content
base64Regex(content) == content.b64

\* parseBase64
parseBase64(content) ==
    IF ~base64Regex(content) \/ content.len < 20 THEN Threw
    ELSE IF ~content.atobOk THEN Threw
    ELSE IF ~\E i \in 1..Len(content.decoded) : isNodeUrl(content.decoded[i]) THEN Threw
    ELSE Yield(parseNodeLines(content.decoded))

\* buildVmessUrl: never returns ''
buildVmessUrl(proxy) ==
    [scheme |-> "vmess",
     body |-> encodeBase64(JSONstringify(<<[k |-> "ps", v |-> OrElse(proxy.name, VMessDefault)],
                                           [k |-> "add", v |-> proxy.server],
                                           [k |-> "port", v |-> PortText(proxy.port)],
                                           [k |-> "id", v |-> proxy.uuid]>>)),
     frags |-> <<>>]

\* the URI-style builders: scheme://user@server:port?query[#name]
buildUriUrl(scheme, user, query, proxy) ==
    [scheme |-> scheme,
     body |-> UriBody(user, proxy.server, proxy.port, query),
     frags |-> IF proxy.name = <<>> THEN <<>> ELSE <<encodeURIComponent(proxy.name)>>]

\* '' or null is NoUrl
NoUrl == [scheme |-> "", body |-> PlainBody(<<>>, 0), frags |-> <<>>]

\* buildVlessUrlEnhanced with the TLS flag ahead of the Reality bundle
buildVlessUrlTlsFirst(proxy) ==
    IF proxy.uuid = <<>> \/ proxy.server = <<>> \/ proxy.port = 0 THEN NoUrl
    ELSE buildUriUrl("vless", proxy.uuid,
                     IF proxy.tls THEN [NoQuery EXCEPT !.security = "tls"]
                     ELSE IF proxy.reality.present
                     THEN [security |-> "reality", pbk |-> proxy.reality.pbk,
                           sid |-> proxy.reality.sid]
                     ELSE NoQuery,
                     proxy)

\* buildVlessUrlEnhanced: the security layer is Reality when reality-opts is
\* there, else TLS when tls is set; pbk and sid are set when not empty
buildVlessUrlEnhanced(proxy) ==
    IF proxy.uuid = <<>> \/ proxy.server = <<>> \/ proxy.port = 0 THEN NoUrl
    ELSE buildUriUrl("vless", proxy.uuid,
                     IF proxy.reality.present
                     THEN [security |-> "reality", pbk |-> proxy.reality.pbk,
                           sid |-> proxy.reality.sid]
                     ELSE IF proxy.tls THEN [NoQuery EXCEPT !.security = "tls"]
                     ELSE NoQuery,
                     proxy)

\* buildTrojanUrl: the password is not required
buildTrojanUrl(proxy) ==
    IF proxy.server = <<>> \/ proxy.port = 0 THEN NoUrl
    ELSE buildUriUrl("trojan", encodeURIComponent(proxy.password), NoQuery, proxy)

buildShadowsocksUrlEnhanced(proxy) ==
    IF proxy.server = <<>> \/ proxy.port = 0 \/ proxy.cipher = <<>> \/ proxy.password = <<>>
    THEN NoUrl
    ELSE buildUriUrl("ss", Btoa(proxy.cipher \o <<":">> \o proxy.password), NoQuery, proxy)

convertClashProxyToUrl(proxy) ==
    LET type == toLowerCase(proxy.type)
    IN IF proxy.server = <<>> \/ proxy.port = 0 THEN NoUrl
       ELSE CASE type = "vmess" -> buildVmessUrl(proxy)
              [] type = "vless" -> buildVlessUrlEnhanced(proxy)
              [] type = "trojan" -> buildTrojanUrl(proxy)
              [] type = "ss" -> buildShadowsocksUrlEnhanced(proxy)
              [] OTHER -> NoUrl

parseClashProxies(proxies) ==
    LET converts(p) == convertClashProxyToUrl(p) # NoUrl
        ok == SelectSeq(proxies, converts)
    IN [i \in 1..Len(ok) |->
          [name |-> OrElse(ok[i].name, Unnamed),
           url |-> convertClashProxyToUrl(ok[i]),
           protocol |-> IF ok[i].type = "" THEN "unknown" ELSE toLowerCase(ok[i].type)]]

parseGenericNodes(gnodes) ==
    [i \in 1..Len(gnodes) |->
        [name |-> OrElse(gnodes[i].name, Unnamed),
         url |-> gnodes[i].url,
         protocol |-> IF gnodes[i].protocol = "" THEN "unknown" ELSE gnodes[i].protocol]]

\* parseYAML: yaml.load, then the proxies list, else the nodes list
parseYAML(content) ==
    CASE content.yaml = "proxies" -> Yield(parseClashProxies(content.proxies))
      [] content.yaml = "nodes" -> Yield(parseGenericNodes(content.gnodes))
      [] OTHER -> Threw

\* parseClashConfig: yaml.load, proxies list only
parseClashConfig(content) ==
    IF content.yaml = "proxies" THEN Yield(parseClashProxies(content.proxies)) ELSE Threw

buildShadowsocksUrlFromSIP008(server) ==
    IF server.server = <<>> \/ server.port = 0 \/ server.method = <<>> \/ server.password = <<>>
    THEN NoUrl
    ELSE [scheme |-> "ss",
          body |-> UriBody(Btoa(server.method \o <<":">> \o server.password),
                           server.server, server.port, NoQuery),
          frags |-> IF server.name = <<>> THEN <<>> ELSE <<encodeURIComponent(server.name)>>]

\* parseSIP008: JSON.parse, then one ss node per server entry that has its
\* four fields and whose user info btoa accepts (the exception of an entry is
\* caught inside the loop)
parseSIP008(content) ==
    IF ~content.jsonOk THEN Threw
    ELSE LET built(sv) ==
                 /\ sv.server # <<>> /\ sv.port # 0
                 /\ sv.method # <<>> /\ sv.password # <<>>
                 /\ ~btoaThrows(sv.method \o <<":">> \o sv.password)
             ok == SelectSeq(content.servers, built)
         IN Yield([i \in 1..Len(ok) |->
                     [name |-> OrElse(ok[i].name, Unnamed),
                      url |-> buildShadowsocksUrlFromSIP008(ok[i]),
                      protocol |-> "ss"]])

\* parsePlainText
parsePlainText(content) ==
    IF ~\E i \in 1..Len(content.lines) : isNodeUrl(content.lines[i]) THEN Threw
    ELSE Yield(parseNodeLines(content.lines))

RunMethod(m, content) ==
    CASE m = "parseBase64" -> parseBase64(content)
      [] m = "parseYAML" -> parseYAML(content)
      [] m = "parseClashConfig" -> parseClashConfig(content)
      [] m = "parseSIP008" -> parseSIP008(content)
      [] OTHER -> parsePlainText(content)

(********************************** parse **********************************)

\* the methods array built by the content sniffing of parse
MethodsFor(content) ==
    (IF base64Regex(content) /\ content.len > 20 THEN <<"parseBase64">> ELSE <<>>)
    \o (IF content.token THEN <<"parseYAML", "parseClashConfig">> ELSE <<>>)
    \o (IF content.brace THEN <<"parseSIP008">> ELSE <<>>)
    \o <<"parsePlainText">>

\* the for-loop of parse over the remaining methods; trace records, per
\* method run, whether it threw, what it yielded and whether processNodes
\* (called inside the same try block) threw
RECURSIVE ParseLoop(_, _, _, _, _)
ParseLoop(methods, content, subName, options, trace) ==
    IF methods = <<>> THEN [raised |-> FALSE, nodes |-> <<>>, filtered |-> <<>>, trace |-> trace]
    ELSE LET m == Head(methods)
             r == RunMethod(m, content)
             yielded == ~r.threw /\ r.nodes # <<>>
             p == IF yielded THEN processNodes(r.nodes, subName, options)
                  ELSE [threw |-> FALSE, nodes |-> <<>>, filtered |-> <<>>]
             entry == [method |-> m, threw |-> r.threw, nodes |-> r.nodes,
                       processThrew |-> yielded /\ p.threw]
         IN IF yielded /\ ~p.threw
            THEN [raised |-> FALSE, nodes |-> p.nodes, filtered |-> p.filtered,
                  trace |-> Append(trace, entry)]
            ELSE ParseLoop(Tail(methods), content, subName, options, Append(trace, entry))

\* parse reporting an empty result as an error
parseThrowsWhenEmpty(content, subName, options) ==
    IF content.empty \/ ~content.isString
    THEN [raised |-> FALSE, nodes |-> <<>>, filtered |-> <<>>, trace |-> <<>>]
    ELSE LET r == ParseLoop(MethodsFor(content), content, subName, options, <<>>)
         IN IF r.nodes = <<>> THEN [r EXCEPT !.raised = TRUE] ELSE r

parse(content, subName, options) ==
    IF content.empty \/ ~content.isString
    THEN [raised |-> FALSE, nodes |-> <<>>, filtered |-> <<>>, trace |-> <<>>]
    ELSE ParseLoop(MethodsFor(content), content, subName, options, <<>>)

(***************************** de-duplication ******************************)

\* delete obj[key]
DeleteMember(pairs, k) ==
    LET other(m) == m.k # k
    IN SelectSeq(pairs, other)

\* the member names in use, in the order Array.prototype.sort() gives them
KeyOrder == <<"add", "id", "ps", "remark">>

\* Object.keys(obj).sort().reduce(...): the members in sorted key order
sortedMembers(pairs) ==
    LET present(k) == HasMember(pairs, k)
        keys == SelectSeq(KeyOrder, present)
    IN [i \in 1..Len(keys) |-> pairs[GetMember(pairs, keys[i])]]

\* JSON.parse(decoded.replace(/\s/g, '')): layout goes, and so does the
\* white space inside the values
parseCleaned(json) == [i \in 1..Len(json.pairs) |->
                          [k |-> json.pairs[i].k, v |-> stripWhitespace(json.pairs[i].v)]]

\* a key is the string 'vmess://' + canonical JSON, or a URL text
JsonKey(members) == [vmess |-> TRUE, members |-> members, url |-> NoUrl]

UrlKey(url) == [vmess |-> FALSE, members |-> <<>>, url |-> url]

\* getUniqueKey keeping the members in their textual order
getUniqueKeyUnsorted(url) ==
    IF url.scheme = "vmess"
    THEN IF atobThrows(url) \/ ~atob(url).obj THEN UrlKey(url)
         ELSE JsonKey(DeleteMember(DeleteMember(parseCleaned(atob(url)), "ps"), "remark"))
    ELSE UrlKey([url EXCEPT !.frags = <<>>])

\* getUniqueKey(url); the catch returns the raw URL
getUniqueKey(url) ==
    IF url.scheme = "vmess"
    THEN IF atobThrows(url) \/ ~atob(url).obj THEN UrlKey(url)
         ELSE JsonKey(sortedMembers(
                  DeleteMember(DeleteMember(parseCleaned(atob(url)), "ps"), "remark")))
    ELSE UrlKey([url EXCEPT !.frags = <<>>])

\* the loop of deduplicateNodes: seenKeys and uniqueNodes over the rest
RECURSIVE DedupLoop(_, _, _)
DedupLoop(rest, seenKeys, uniqueNodes) ==
    IF rest = <<>> THEN uniqueNodes
    ELSE LET uniqueKey == getUniqueKey(Head(rest).url)
         IN IF uniqueKey \notin seenKeys
            THEN DedupLoop(Tail(rest), seenKeys \cup {uniqueKey}, Append(uniqueNodes, Head(rest)))
            ELSE DedupLoop(Tail(rest), seenKeys, uniqueNodes)

\* deduplicateNodes keeping the last node of each key
RECURSIVE deduplicateNodesKeepLast(_)
deduplicateNodesKeepLast(nodes) ==
    IF nodes = <<>> THEN <<>>
    ELSE IF \E i \in 2..Len(nodes) : getUniqueKey(nodes[i].url) = getUniqueKey(Head(nodes).url)
    THEN deduplicateNodesKeepLast(Tail(nodes))
    ELSE <<Head(nodes)>> \o deduplicateNodesKeepLast(Tail(nodes))

\* the new value of manualNodes in deduplicateNodes
deduplicateNodes(nodes) == DedupLoop(nodes, {}, <<>>)

\* paginatedManualNodes with an empty search term
paginatedManualNodes(nodes, page, perPage) ==
    LET start == (page - 1) * perPage
        end == IF start + perPage < Len(nodes) THEN start + perPage ELSE Len(nodes)
    IN SubSeq(nodes, start + 1, end)

(************************* generateCombinedNodeList ************************)

\* the label given to manual nodes
ManualLabel == <<"n">>

\* sub.url.toLowerCase().startsWith('http')
isHttpSub(sub) == toLowerCase(sub.url.scheme) \in {"http", "https"}

\* one HTTP source: a failed or non-ok fetch gives [], and so does a throw
\* of parse
fetchAndParse(sub, prepend) ==
    IF sub.response.status # "ok" THEN <<>>
    ELSE LET r == parse(sub.response.text, sub.name,
                        [exclude |-> sub.exclude, prependSubName |-> prepend])
         IN IF r.raised THEN <<>> ELSE r.nodes

RECURSIVE Flat(_)
Flat(lists) == IF lists = <<>> THEN <<>> ELSE Head(lists) \o Flat(Tail(lists))

\* step 3, on node.url; a node without a URL is skipped
RECURSIVE UniqueByUrl(_, _, _)
UniqueByUrl(rest, seenUrls, uniqueNodes) ==
    IF rest = <<>> THEN uniqueNodes
    ELSE IF Head(rest).url = NoUrl THEN UniqueByUrl(Tail(rest), seenUrls, uniqueNodes)
    ELSE IF Head(rest).url \notin seenUrls
    THEN UniqueByUrl(Tail(rest), seenUrls \cup {Head(rest).url}, Append(uniqueNodes, Head(rest)))
    ELSE UniqueByUrl(Tail(rest), seenUrls, uniqueNodes)

(**************************** config generator *****************************)

\* url.username and url.password of new URL(url): the userinfo up to and
\* after its first ':'
RECURSIVE username(_)
username(user) ==
    IF user = <<>> \/ Head(user) = ":" THEN <<>>
    ELSE <<Head(user)>> \o username(Tail(user))

RECURSIVE password(_)
password(user) ==
    IF user = <<>> THEN <<>>
    ELSE IF Head(user) = ":" THEN Tail(user)
    ELSE password(Tail(user))

\* new URL(url) throws on a userinfo or a port without a host; '' is not a URL
newURLThrows(url) ==
    \/ url = NoUrl
    \/ /\ url.body.enc = "plain"
       /\ url.body.host = <<>>
       /\ (url.body.user # <<>> \/ url.body.port # 0)

\* null, for a proxy, an outbound or a proxy line
NoProxy == Proxy("", <<>>, 0, <<>>, <<>>, <<>>, <<>>)

\* vmessObj.key of a parsed VMess object, undefined being empty
Member(json, key) ==
    IF HasMember(json.pairs, key) THEN json.pairs[GetMember(json.pairs, key)].v ELSE <<>>

AutoCipher == <<"a", "u", "t", "o">>

\* urlToClashProxy(urlStr, name, protocol): null, or the Clash proxy
urlToClashProxy(url, name, protocol) ==
    IF newURLThrows(url) THEN NoProxy
    ELSE LET user == url.body.user
             config == [type |-> protocol, name |-> name,
                        server |-> hostname(url),
                        port |-> IF url.body.port = 0 THEN 443 ELSE url.body.port,
                        uuid |-> username(user), password |-> password(user),
                        cipher |-> <<>>, tls |-> FALSE, reality |-> NoReality]
         IN CASE protocol = "ss" -> [config EXCEPT !.cipher = username(user)]
              [] protocol = "vmess" ->
                    IF url.scheme # "vmess" THEN config
                    ELSE IF atobThrows(url) \/ ~atob(url).obj THEN NoProxy
                    ELSE [type |-> "vmess", name |-> name,
                          server |-> Member(atob(url), "add"),
                          port |-> Number(Member(atob(url), "port")),
                          uuid |-> Member(atob(url), "id"), password |-> <<>>,
                          cipher |-> AutoCipher, tls |-> FALSE, reality |-> NoReality]
              [] protocol = "vless" ->
                    IF url.body.query.security = "reality"
                    THEN [config EXCEPT !.tls = TRUE,
                                        !.reality = [present |-> TRUE,
                                                     pbk |-> url.body.query.pbk,
                                                     sid |-> url.body.query.sid]]
                    ELSE IF url.body.query.security = "tls"
                    THEN [config EXCEPT !.tls = TRUE]
                    ELSE config
              [] protocol \in {"hysteria2", "hy2"} ->
                    [config EXCEPT !.type = "hysteria2",
                                   !.password = OrElse(username(user), password(user))]
              [] protocol = "trojan" -> [config EXCEPT !.password = username(user)]
              [] protocol = "tuic" -> config
              [] protocol = "anytls" ->
                    [config EXCEPT !.password = OrElse(username(user), password(user))]
              [] OTHER -> IF config.server = <<>> THEN NoProxy ELSE config

\* nodeToClashProxy(node): the proxy the node was parsed from, renamed, or
\* else the one read off its share-URI
nodeToClashProxy(node) ==
    IF node.url = NoUrl THEN NoProxy
    ELSE IF node.originalProxy # NoProxy THEN [node.originalProxy EXCEPT !.name = node.name]
    ELSE urlToClashProxy(node.url, node.name, node.protocol)

\* an object reference held by a local variable: the object itself, or a new
\* object with the same fields
Alias(obj) == [fresh |-> FALSE, value |-> obj]

Spread(obj) == [fresh |-> TRUE, value |-> obj]

\* the proxy of nodeToClashProxy aliasing node.originalProxy
originalProxyAliased(node) == Alias(node.originalProxy)

\* let proxy = node.originalProxy ? { ...node.originalProxy } : null
originalProxyCopy(node) == Spread(node.originalProxy)

\* the node once nodeToClashProxy(node) has returned: proxy.name = node.name
\* is written to the object the local variable proxy refers to
nodeAfterClashProxy(node) ==
    IF node.url = NoUrl \/ node.originalProxy = NoProxy THEN node
    ELSE IF originalProxyCopy(node).fresh THEN node
    ELSE [node EXCEPT !.originalProxy.name = node.name]

\* the names of the synthesized groups and of the built-in policy
Direct == <<"DIRECT">>
SelectGroup == <<"Select">>
AutoGroup == <<"Auto">>
FinalGroup == <<"Final">>
SceneGroups ==
    << <<"Telegram">>, <<"OpenAI">>, <<"Netflix">>, <<"YouTube">>, <<"Apple">>,
       <<"Microsoft">>, <<"Media">> >>

Group(name, members) == [name |-> name, members |-> members]

\* the entries that are not null, and the document made of them
NotNull(entries) == LET kept(e) == e # NoProxy IN SelectSeq(entries, kept)

Document(converted, proxyNames, groups) ==
    [converted |-> converted, proxies |-> NotNull(converted), names |-> proxyNames,
     groups |-> groups]

\* proxies.map(p => p.name), with DIRECT when there is none
NamesOrDirect(proxies) ==
    IF proxies = <<>> THEN <<Direct>> ELSE [i \in 1..Len(proxies) |-> proxies[i].name]

generateClashMeta(nodes) ==
    LET converted == [i \in 1..Len(nodes) |-> nodeToClashProxy(nodes[i])]
        proxyNames == NamesOrDirect(NotNull(converted))
        createSelectGroup(name) == Group(name, <<AutoGroup>> \o proxyNames \o <<Direct>>)
    IN Document(converted, proxyNames,
                <<createSelectGroup(SelectGroup), Group(AutoGroup, proxyNames)>>
                \o [i \in 1..Len(SceneGroups) |-> createSelectGroup(SceneGroups[i])]
                \o <<Group(FinalGroup,
                           <<SelectGroup, AutoGroup>> \o proxyNames \o <<Direct>>)>>)

mapProtocolToSingBoxType(protocol) ==
    CASE protocol \in {"hy2", "hysteria2"} -> "hysteria2"
      [] protocol = "vless" -> "vless"
      [] protocol = "vmess" -> "vmess"
      [] protocol = "trojan" -> "trojan"
      [] protocol = "ss" -> "shadowsocks"
      [] protocol = "ssr" -> "shadowsocksr"
      [] protocol = "tuic" -> "tuic"
      [] OTHER -> "unknown"

\* startsWith on the text of a share-URI, for a prefix within the scheme
urlStartsWith(url, prefix) == url.scheme = prefix

\* nodeToSingBoxOutbound(node): name is the tag; an exception past the
\* reading of host and port leaves the outbound as it is by then
nodeToSingBoxOutbound(node) ==
    IF node.url = NoUrl \/ newURLThrows(node.url) THEN NoProxy
    ELSE LET url == node.url
             user == url.body.user
             isTls == \/ url.body.query.security \in {"tls", "reality"}
                      \/ urlStartsWith(url, "trojan") \/ urlStartsWith(url, "hysteria2")
             outbound == [type |-> mapProtocolToSingBoxType(node.protocol),
                          name |-> node.name,
                          server |-> hostname(url),
                          port |-> IF url.body.port = 0 THEN 443 ELSE url.body.port,
                          uuid |-> <<>>, password |-> <<>>, cipher |-> <<>>,
                          tls |-> isTls, reality |-> NoReality]
             filled ==
                 CASE outbound.type = "vless" ->
                         [outbound EXCEPT
                              !.uuid = username(user),
                              !.reality = IF url.body.query.security = "reality"
                                          THEN [present |-> TRUE, pbk |-> url.body.query.pbk,
                                                sid |-> url.body.query.sid]
                                          ELSE NoReality]
                   [] outbound.type = "hysteria2" ->
                         [outbound EXCEPT !.password = OrElse(username(user), password(user))]
                   [] outbound.type = "trojan" -> [outbound EXCEPT !.password = username(user)]
                   [] outbound.type = "vmess" ->
                         IF ~urlStartsWith(url, "vmess") THEN outbound
                         ELSE IF atobThrows(url) \/ ~atob(url).obj THEN outbound
                         ELSE [outbound EXCEPT !.server = Member(atob(url), "add"),
                                               !.port = Number(Member(atob(url), "port")),
                                               !.uuid = Member(atob(url), "id")]
                   [] OTHER -> outbound
         IN IF filled.server = <<>> THEN NoProxy ELSE filled

generateSingBox(nodes) ==
    LET converted == [i \in 1..Len(nodes) |-> nodeToSingBoxOutbound(nodes[i])]
        selectorTags == NamesOrDirect(NotNull(converted))
        createSelector(tag) == Group(tag, <<AutoGroup>> \o selectorTags \o <<Direct>>)
        scenes == SelectSeq(SceneGroups, LAMBDA g : g # <<"Microsoft">>)
    IN Document(converted, selectorTags,
                <<createSelector(SelectGroup), Group(AutoGroup, selectorTags)>>
                \o [i \in 1..Len(scenes) |-> createSelector(scenes[i])])

\* node.name.replace(/[,=]/g, '')
RECURSIVE cleanName(_)
cleanName(name) ==
    IF name = <<>> THEN <<>>
    ELSE IF Head(name) \in {",", "="} THEN cleanName(Tail(name))
    ELSE <<Head(name)>> \o cleanName(Tail(name))

\* a proxy line  name = type, server, port, ...  of an INI document, and the
\* line ''
Line(name, type, server, port, uuid, pass, cipher) ==
    [type |-> type, name |-> cleanName(name), server |-> server, port |-> port,
     uuid |-> uuid, password |-> pass, cipher |-> cipher, tls |-> FALSE,
     reality |-> NoReality]

EmptyLine == Line(<<>>, "empty", <<>>, 0, <<>>, <<>>, <<>>)

\* the VMess line of both INI formats: JSON.parse(atob(...)) throws into the
\* catch; a URL that is not vmess:// leaves the line ''
vmessLine(node) ==
    IF ~urlStartsWith(node.url, "vmess") THEN EmptyLine
    ELSE IF atobThrows(node.url) \/ ~atob(node.url).obj THEN NoProxy
    ELSE Line(node.name, "vmess", Member(atob(node.url), "add"),
              Number(Member(atob(node.url), "port")), Member(atob(node.url), "id"),
              <<>>, <<>>)

nodeToSurgeProxy(node) ==
    IF node.url = NoUrl \/ newURLThrows(node.url) THEN NoProxy
    ELSE LET url == node.url
             user == url.body.user
         IN CASE node.protocol = "ss" ->
                    Line(node.name, "ss", hostname(url), url.body.port, <<>>,
                         password(user), username(user))
              [] node.protocol = "vmess" -> vmessLine(node)
              [] node.protocol = "trojan" ->
                    Line(node.name, "trojan", hostname(url), url.body.port, <<>>,
                         username(user), <<>>)
              [] node.protocol = "tuic" ->
                    Line(node.name, "tuic", hostname(url), url.body.port, <<>>,
                         password(user), <<>>)
              [] node.protocol \in {"hysteria2", "hy2"} ->
                    Line(node.name, "hysteria2", hostname(url), url.body.port, <<>>,
                         OrElse(username(user), password(user)), <<>>)
              [] OTHER -> NoProxy

\* nodeToLoonProxy without its case 'vless'
nodeToLoonProxySkipsVless(node) ==
    IF node.protocol = "vless" THEN NoProxy ELSE nodeToSurgeProxy(node)

nodeToLoonProxy(node) ==
    IF node.url = NoUrl \/ newURLThrows(node.url) THEN NoProxy
    ELSE LET url == node.url
             user == url.body.user
         IN CASE node.protocol = "ss" ->
                    Line(node.name, "Shadowsocks", hostname(url), url.body.port, <<>>,
                         password(user), username(user))
              [] node.protocol = "vmess" -> vmessLine(node)
              [] node.protocol = "vless" ->
                    [Line(node.name, "vless", hostname(url), url.body.port, username(user),
                          <<>>, <<>>)
                        EXCEPT !.tls = url.body.query.security \in {"tls", "reality"},
                               !.reality = IF url.body.query.security = "reality"
                                           THEN [present |-> TRUE,
                                                 pbk |-> url.body.query.pbk,
                                                 sid |-> url.body.query.sid]
                                           ELSE NoReality]
              [] node.protocol = "trojan" ->
                    Line(node.name, "trojan", hostname(url), url.body.port, <<>>,
                         username(user), <<>>)
              [] node.protocol \in {"hysteria2", "hy2"} ->
                    Line(node.name, "Hysteria2", hostname(url), url.body.port, <<>>,
                         OrElse(username(user), password(user)), <<>>)
              [] OTHER -> NoProxy

\* the [Proxy Group] section of both INI documents; the name of a proxy is
\* read back from its line: p.split(/\s*=/)[0].trim()
IniDocument(converted) ==
    LET proxyNames == NamesOrDirect(NotNull(converted))
        scenes == SceneGroups \o <<FinalGroup>>
    IN Document(converted, proxyNames,
                <<Group(SelectGroup, <<AutoGroup>> \o proxyNames),
                  Group(AutoGroup, proxyNames)>>
                \o [i \in 1..Len(scenes) |-> Group(scenes[i], <<SelectGroup>> \o proxyNames)])

generateSurge(nodes) == IniDocument([i \in 1..Len(nodes) |-> nodeToSurgeProxy(nodes[i])])

generateLoon(nodes) == IniDocument([i \in 1..Len(nodes) |-> nodeToLoonProxy(nodes[i])])

(********************************* inputs **********************************)

MaxLines == 2
MaxNodes == 2
MaxRules == 2
MaxManual == 3
MaxSubs == 2
MaxEmit == 2

\* the length threshold of the Base64 sniffing in parse
Base64MinLength == 20

SeqsUpTo(S, n) == UNION { [1..k -> S] : k \in 0..n }

Url(scheme, body, frags) == [scheme |-> scheme, body |-> body, frags |-> frags]

VmessJson == [obj |-> TRUE, ws |-> TRUE,
              pairs |-> <<[k |-> "ps", v |-> <<"k">>], [k |-> "add", v |-> <<"h">>]>>]

JunkLine == Url("", PlainBody(<<>>, 0), <<>>)

\* share-URI lines: lower and upper case schemes, with and without a
\* fragment, a VMess body that decodes and one that does not
UrlLines ==
    { Url("vless", PlainBody(<<"h">>, 443), <<<<"a">>>>),
      Url("VLESS", PlainBody(<<"h">>, 443), <<<<"H", "%20", "k">>>>),
      Url("trojan", PlainBody(<<"h">>, 443), <<>>),
      Url("ss", PlainBody(<<"h">>, 8388), <<<<"a">>, <<"%23", "%">>>>),
      Url("vmess", encodeBase64(VmessJson), <<>>),
      Url("vmess", PlainBody(<<>>, 0), <<>>),
      Url("vmess", encodeBase64(VmessJson), <<<<"k">>>>),
      Url("VMESS", encodeBase64(VmessJson), <<>>) }

OtherLines == { JunkLine, Url("wireguard", PlainBody(<<"h">>, 443), <<<<"a">>>>) }

\* lines inside a Base64 payload
DecodedLines ==
    { Url("vless", PlainBody(<<"h">>, 443), <<<<"a">>>>),
      Url("VLESS", PlainBody(<<"h">>, 443), <<<<"H", "%20", "k">>>>),
      Url("vmess", encodeBase64(VmessJson), <<>>),
      JunkLine }

Proxies ==
    { Proxy("vless", <<"h">>, 443, <<"u">>, <<>>, <<>>, <<"a">>),
      Proxy("VMESS", <<"h">>, 443, <<"u">>, <<>>, <<>>, <<>>),
      Proxy("ss", <<"h">>, 443, <<>>, <<>>, <<>>, <<"k">>),
      Proxy("wireguard", <<"h">>, 443, <<"u">>, <<>>, <<>>, <<"k">>) }

\* the structured proxies given to the codec
RealityOpts == [present |-> TRUE, pbk |-> <<"K">>, sid |-> <<"s">>]

CodecProxies ==
    { [Proxy(t, sv, pt, <<>>, pw, c, nm) EXCEPT !.tls = tl] :
          t \in {"ss", "trojan"}, sv \in {<<"h">>, <<>>}, pt \in {8388, 0},
          pw \in {<<"p">>, <<"p", "#">>, <<>>}, c \in {<<"c">>, <<>>},
          nm \in {<<"a">>, <<>>}, tl \in {FALSE} }
    \cup
    { [Proxy(t, <<"h">>, pt, u, <<>>, <<>>, <<"a">>) EXCEPT !.tls = tl, !.reality = r] :
          t \in {"vmess", "vless", "VLESS", "wireguard"}, pt \in {443, 444},
          u \in {<<"u">>, <<>>}, tl \in BOOLEAN,
          r \in {NoReality, RealityOpts, [RealityOpts EXCEPT !.sid = <<>>]} }

\* hand-written VLESS share-URIs
CodecUrls ==
    { Url("vless", UriBody(<<"u">>, <<"h">>, 443, [security |-> sec, pbk |-> k, sid |-> i]),
          << <<"a">> >>) :
          sec \in {"reality", "tls", ""}, k \in {<<"K">>, <<>>}, i \in {<<"s">>, <<>>} }

\* the nodes given to a generator: parsed from share-URI lines, from the
\* nodes list of a YAML payload, or from Clash proxies (originalProxy)
EmitNode(name, url, protocol, originalProxy) ==
    [name |-> name, url |-> url, protocol |-> protocol, originalProxy |-> originalProxy]

RealityProxy == [Proxy("vless", <<"h">>, 443, <<"u">>, <<>>, <<>>, <<"a">>)
                    EXCEPT !.reality = RealityOpts]

EmitNodes ==
    { EmitNode(<<"k">>,
               Url("ss", UriBody(Btoa(<<"c", ":", "p">>), <<"h">>, 8388, NoQuery), << <<"k">> >>),
               "ss", NoProxy),
      EmitNode(<<"a">>, buildVmessUrl(Proxy("vmess", <<"h">>, 443, <<"u">>, <<>>, <<>>, <<"a">>)),
               "vmess", NoProxy),
      EmitNode(VMessDefault, Url("vmess", encodeBase64(NoJson), <<>>), "vmess", NoProxy),
      EmitNode(<<"H">>, Url("https", PlainBody(<<"h">>, 443), <<>>), "vmess", NoProxy),
      EmitNode(<<"a">>, buildVlessUrlEnhanced(RealityProxy), "vless", NoProxy),
      EmitNode(<<"k">>, buildVlessUrlEnhanced(RealityProxy), "vless", RealityProxy),
      EmitNode(<<"a", ",">>, Url("trojan", UriBody(<<"p">>, <<"h">>, 443, NoQuery), <<>>),
               "trojan", NoProxy),
      EmitNode(<<"k">>, Url("trojan", UriBody(<<"p">>, <<>>, 0, NoQuery), << <<"k">> >>),
               "trojan", NoProxy),
      EmitNode(<<"k">>, NoUrl, "trojan", NoProxy),
      EmitNode(<<"k">>, Url("vless", UriBody(<<"u">>, <<>>, 0, NoQuery), <<>>),
               "vless", NoProxy),
      EmitNode(<<"H">>, Url("anytls", UriBody(<<"p">>, <<"h">>, 443, NoQuery), <<>>),
               "anytls", NoProxy),
      EmitNode(<<"H", "k">>, Url("hysteria2", UriBody(<<"p">>, <<"h">>, 443, NoQuery), <<>>),
               "hy2", NoProxy),
      EmitNode(<<"h">>, Url("wireguard", PlainBody(<<"h">>, 443), <<>>), "unknown", NoProxy) }

Targets == {"clash", "singbox", "surge", "loon"}

GenericNodes ==
    { [name |-> <<"a">>, url |-> Url("trojan", PlainBody(<<"h">>, 443), <<>>), protocol |-> "trojan"],
      [name |-> <<>>, url |-> NoUrl, protocol |-> ""] }

Servers ==
    { [server |-> <<"h">>, port |-> 8388, method |-> <<"c">>, password |-> <<"p">>,
       name |-> <<"H", "k">>],
      [server |-> <<"h">>, port |-> 8388, method |-> <<"c">>, password |-> <<>>,
       name |-> <<>>],
      [server |-> <<"e">>, port |-> 443, method |-> <<"c">>, password |-> <<"U+5BC6">>,
       name |-> <<"a">>] }

BaseContent ==
    [isString |-> TRUE, empty |-> FALSE, b64 |-> FALSE, len |-> Base64MinLength + 1,
     atobOk |-> FALSE, decoded |-> <<>>, token |-> FALSE, yaml |-> "throws",
     proxies |-> <<>>, gnodes |-> <<>>, brace |-> FALSE, jsonOk |-> FALSE,
     servers |-> <<>>, lines |-> <<>>]

\* a Base64 body has no ':' and so carries no token, brace or node line
Base64Contents ==
    { [BaseContent EXCEPT !.b64 = TRUE, !.len = n, !.atobOk = ok, !.decoded = d,
                          !.lines = <<JunkLine>>] :
        n \in {Base64MinLength - 1, Base64MinLength, Base64MinLength + 1},
        ok \in BOOLEAN,
        d \in SeqsUpTo(DecodedLines, MaxLines) }

\* a YAML document; a top-level key may look like a share-URI line, and a
\* flow-style document starts with a brace without being JSON
YamlContents ==
    { [BaseContent EXCEPT !.token = TRUE, !.yaml = y, !.proxies = ps, !.lines = ls,
                          !.brace = br] :
        y \in {"throws", "scalar", "other", "proxies"},
        ps \in SeqsUpTo(Proxies, MaxLines),
        ls \in SeqsUpTo({Url("trojan", PlainBody(<<"h">>, 443), <<>>)}, 1),
        br \in BOOLEAN }
    \cup
    { [BaseContent EXCEPT !.token = TRUE, !.yaml = "nodes", !.gnodes = gs] :
        gs \in SeqsUpTo(GenericNodes, MaxLines) }

\* a JSON document; it may also carry the token inside a string
JsonContents ==
    { [BaseContent EXCEPT !.brace = TRUE, !.jsonOk = ok, !.servers = sv,
                          !.token = t, !.yaml = IF t THEN "other" ELSE "throws"] :
        ok \in BOOLEAN, sv \in SeqsUpTo(Servers, MaxLines), t \in BOOLEAN }

PlainContents ==
    { [BaseContent EXCEPT !.lines = ls] : ls \in SeqsUpTo(UrlLines \cup OtherLines, MaxLines) }

Contents ==
    { [BaseContent EXCEPT !.empty = TRUE], [BaseContent EXCEPT !.isString = FALSE] }
    \cup Base64Contents \cup YamlContents \cup JsonContents \cup PlainContents

Rule(keep, proto, protos, text) == [keep |-> keep, proto |-> proto, protos |-> protos, text |-> text]

Rules ==
    { Rule("", "PROTO:", <<"VLESS", "ss">>, <<>>),
      Rule("", "", <<>>, <<"(">>),
      Rule("keep:", "proto:", <<"vless", "trojan">>, <<>>),
      Rule("KEEP:", "", <<>>, <<"a">>) }

SubNames == { <<>>, <<"a">> }

\* option values used with whole payloads
ParseOptions ==
    { [exclude |-> e, prependSubName |-> b] :
        e \in { <<>>,
                <<Rule("", "proto:", <<"vless">>, <<>>)>>,
                <<Rule("", "", <<>>, <<"k">>)>>,
                <<Rule("", "", <<>>, <<"(">>)>>,
                <<Rule("keep:", "proto:", <<"vless", "trojan">>, <<>>)>>,
                <<Rule("KEEP:", "", <<>>, <<"a">>), Rule("", "", <<>>, <<"(">>)>> },
        b \in BOOLEAN }

\* option values used with node lists
ProcessOptions ==
    { [exclude |-> e, prependSubName |-> b] : e \in SeqsUpTo(Rules, MaxRules), b \in BOOLEAN }

\* nodes the strategies hand to processNodes
PipelineNodes == { parseNodeLine(l) : l \in UrlLines }

\* manual nodes of the dashboard: two VMess configurations that differ in
\* ps, remark, key order and layout, each under both spellings of the
\* scheme, and two Trojan URIs that differ after the first '#'
ManualVmessJson ==
    [obj |-> TRUE, ws |-> TRUE,
     pairs |-> <<[k |-> "ps", v |-> <<"k">>], [k |-> "add", v |-> <<"h">>],
                 [k |-> "id", v |-> <<"u">>]>>]

RenamedVmessJson ==
    [obj |-> TRUE, ws |-> FALSE,
     pairs |-> <<[k |-> "id", v |-> <<"u">>], [k |-> "remark", v |-> <<"a">>],
                 [k |-> "add", v |-> <<"h">>]>>]

ManualUrls ==
    { Url("vmess", encodeBase64(ManualVmessJson), <<>>),
      Url("vmess", encodeBase64(RenamedVmessJson), <<>>),
      Url("VMESS", encodeBase64(ManualVmessJson), <<>>),
      Url("VMESS", encodeBase64(RenamedVmessJson), <<>>),
      Url("trojan", PlainBody(<<"h">>, 443), <<<<"a">>>>),
      Url("trojan", PlainBody(<<"h">>, 443), <<<<"k">>, <<"a">>>>) }

\* a source of a request: a manual node, or an HTTP subscription together
\* with what its fetch answers
NoResponse == [status |-> "none", text |-> BaseContent]

Source(name, url, exclude, response) ==
    [name |-> name, url |-> url, exclude |-> exclude, response |-> response]

ManualSources ==
    { Source(<<"a">>, u, <<>>, NoResponse) :
        u \in { Url("vless", PlainBody(<<"h">>, 443), <<<<"a">>>>),
                Url("trojan", PlainBody(<<"h">>, 443), <<>>),
                Url("trojan", PlainBody(<<"h">>, 443), <<<<"a">>>>),
                Url("trojan", PlainBody(<<"h">>, 443), <<<<"k">>>>),
                Url("vmess", encodeBase64(VmessJson), <<>>),
                Url("wireguard", PlainBody(<<"h">>, 443), <<<<"a">>>>) } }

FetchedTexts ==
    { [BaseContent EXCEPT !.lines = <<Url("trojan", PlainBody(<<"h">>, 443), <<<<"a">>>>),
                                      Url("trojan", PlainBody(<<"h">>, 443), <<<<"k">>>>)>>],
      [BaseContent EXCEPT !.lines = <<Url("vless", PlainBody(<<"h">>, 443), <<<<"a">>>>)>>],
      [BaseContent EXCEPT !.token = TRUE, !.yaml = "nodes",
          !.gnodes = <<[name |-> <<"a">>, url |-> Url("trojan", PlainBody(<<"h">>, 443), <<>>),
                        protocol |-> "trojan"],
                       [name |-> <<>>, url |-> NoUrl, protocol |-> ""]>>],
      [BaseContent EXCEPT !.empty = TRUE] }

HttpSources ==
    { Source(<<"a">>, Url("https", PlainBody(<<"h">>, 443), <<>>), e, [status |-> "ok", text |-> t]) :
        t \in FetchedTexts, e \in { <<>>, <<Rule("", "", <<>>, <<"(">>)>> } }
    \cup
    { Source(<<"a">>, Url("HTTPS", PlainBody(<<"h">>, 443), <<>>), <<>>,
             [status |-> st, text |-> BaseContent]) : st \in {"threw", "notok"} }

Sources == ManualSources \cup HttpSources

\* the page size of the manual node list
manualNodesPerPage == 24

(********************************* parser **********************************)

\* useManualNodes() as constructed: empty list, first page, no toast shown
NoToast == [kind |-> "none", removed |-> 0]

NoManualNodes ==
    /\ manualNodes = <<>>
    /\ manualNodesCurrentPage = 1
    /\ toast = NoToast
    /\ prevOp = "none"

\* no codec or generator call is pending
NoDocument == Document(<<>>, <<>>, <<>>)

NoGenerator ==
    /\ inProxy = NoProxy
    /\ encoded = NoUrl
    /\ decoded = NoProxy
    /\ target = "none"
    /\ document = NoDocument

\* no parser or pipeline call is pending
NoCore ==
    /\ inContent = BaseContent
    /\ inNodes = <<>>
    /\ inSubName = <<>>
    /\ inOptions = [exclude |-> <<>>, prependSubName |-> FALSE]
    /\ attempts = <<>>
    /\ filtered = <<>>
    /\ returned = <<>>
    /\ raised = FALSE
    /\ subs = <<>>

\* useSubscriptions() and useProfiles() as constructed: empty lists, first pages
NoDashboard ==
    /\ subscriptions = <<>>
    /\ subsCurrentPage = 1
    /\ profiles = <<>>
    /\ profilesCurrentPage = 1
    /\ uuids = 0

\* the run of handleUpdateNodeCount: the object it found in the list
\* (subToUpdate), whether the list still holds that very object, the URL it
\* passed to fetchNodeCount, and the id whose URL the caller has changed
NoSub == [id |-> 0, url |-> "", nodeCount |-> 0, userInfo |-> "undefined", isUpdating |-> FALSE]

NoUpdate == [state |-> "none", subToUpdate |-> NoSub, listed |-> FALSE, url |-> "", changed |-> 0]

\* no handleUpdateNodeCount is in flight
NoUpdating ==
    updating = NoUpdate

\* a KV namespace is a function from the keys it holds to their values
EmptyKv == [k \in {} |-> 0]

NoRequests == [r \in {} |-> 0]

NoReply == [status |-> 0, message |-> "none"]

\* an empty KV namespace and no request
NoServer ==
    /\ kv = EmptyKv
    /\ now = 0
    /\ reqs = NoRequests
    /\ sent = <<>>
    /\ issued = {}
    /\ reply = NoReply

\* nothing is unsaved and no save is running
NoPersistence ==
    /\ dirty = FALSE
    /\ saveState = "idle"
    /\ timers = 0

NoExt == NoDashboard /\ NoUpdating /\ NoServer /\ NoPersistence

\* a call is pending with its arguments; the action runs it to completion
InitParse ==
    /\ pc = "call"
    /\ op = "parse"
    /\ inContent \in Contents
    /\ inNodes = <<>>
    /\ inSubName \in SubNames
    /\ inOptions \in ParseOptions
    /\ attempts = <<>>
    /\ filtered = <<>>
    /\ returned = <<>>
    /\ raised = FALSE
    /\ subs = <<>>
    /\ NoManualNodes
    /\ NoExt
    /\ NoGenerator

InitProcess ==
    /\ pc = "call"
    /\ op = "processNodes"
    /\ inContent = BaseContent
    /\ inNodes \in SeqsUpTo(PipelineNodes, MaxNodes)
    /\ inSubName \in SubNames
    /\ inOptions \in ProcessOptions
    /\ attempts = <<>>
    /\ filtered = <<>>
    /\ returned = <<>>
    /\ raised = FALSE
    /\ subs = <<>>
    /\ NoManualNodes
    /\ NoExt
    /\ NoGenerator

\* subscriptionParser.parse(content, subName, options)
Parse ==
    /\ pc = "call" /\ op = "parse"
    /\ LET r == parse(inContent, inSubName, inOptions)
       IN /\ attempts' = r.trace
          /\ filtered' = r.filtered
          /\ returned' = r.nodes
          /\ raised' = r.raised
    /\ pc' = "done"
    /\ UNCHANGED <<op, inContent, inNodes, inSubName, inOptions, subs, uiVars, genVars, extVars>>

\* subscriptionParser.processNodes(nodes, subName, options) on parsed nodes
ProcessNodes ==
    /\ pc = "call" /\ op = "processNodes"
    /\ LET r == processNodes(inNodes, inSubName, inOptions)
       IN /\ filtered' = r.filtered
          /\ returned' = r.nodes
          /\ raised' = r.threw
    /\ pc' = "done"
    /\ UNCHANGED <<op, inContent, inNodes, inSubName, inOptions, attempts, subs, uiVars, genVars, extVars>>

Spec == InitParse /\ [][Parse]_vars

SpecProcess == InitProcess /\ [][ProcessNodes]_vars

(*************************** combined node list ****************************)

\* a request is pending with the profile's sources and the answers of their
\* fetches; inOptions holds config, filtered will hold allNodes
InitCombined ==
    /\ pc = "call"
    /\ op = "generateCombinedNodeList"
    /\ inContent = BaseContent
    /\ inNodes = <<>>
    /\ inSubName = <<>>
    /\ inOptions \in { [exclude |-> <<>>, prependSubName |-> b] : b \in BOOLEAN }
    /\ attempts = <<>>
    /\ filtered = <<>>
    /\ returned = <<>>
    /\ raised = FALSE
    /\ subs \in SeqsUpTo(Sources, MaxSubs)
    /\ NoManualNodes
    /\ NoExt
    /\ NoGenerator

\* generateCombinedNodeList(context, config, userAgent, subs): the manual
\* nodes, the HTTP subscriptions, the concatenation and the de-duplication
GenerateCombinedNodeList ==
    /\ pc = "call" /\ op = "generateCombinedNodeList"
    /\ LET manual(sub) == ~isHttpSub(sub)
           http(sub) == isHttpSub(sub)
       IN \E manualSubs \in {SelectSeq(subs, manual)}, httpSubs \in {SelectSeq(subs, http)} :
          \E parsedManualNodes \in
                 {parseNodeLines([i \in 1..Len(manualSubs) |-> manualSubs[i].url])} :
          \E processedManualNodes \in
                 {processNodes(parsedManualNodes, ManualLabel,
                               [exclude |-> <<>>,
                                prependSubName |-> inOptions.prependSubName]).nodes} :
          \E processedSubResults \in
                 {[i \in 1..Len(httpSubs) |->
                      fetchAndParse(httpSubs[i], inOptions.prependSubName)]} :
          \E allNodes \in {processedManualNodes \o Flat(processedSubResults)} :
             /\ filtered' = allNodes
             /\ returned' = UniqueByUrl(allNodes, {}, <<>>)
    /\ pc' = "done"
    /\ UNCHANGED <<op, inContent, inNodes, inSubName, inOptions, attempts, raised, subs, uiVars, genVars, extVars>>

SpecCombined == InitCombined /\ [][GenerateCombinedNodeList]_vars

(**************************** manual node list *****************************)

InitManual ==
    /\ pc = "idle"
    /\ op = "none"
    /\ inContent = BaseContent
    /\ inNodes = <<>>
    /\ inSubName = <<>>
    /\ inOptions = [exclude |-> <<>>, prependSubName |-> FALSE]
    /\ attempts = <<>>
    /\ filtered = <<>>
    /\ returned = <<>>
    /\ raised = FALSE
    /\ subs = <<>>
    /\ NoManualNodes
    /\ NoExt
    /\ NoGenerator

\* the id of a new node (crypto.randomUUID()): one no node of the list has
FreshId == CHOOSE id \in 1..MaxManual :
               /\ \A i \in 1..Len(manualNodes) : manualNodes[i].id # id
               /\ \A other \in 1..(id - 1) : \E i \in 1..Len(manualNodes) : manualNodes[i].id = other

\* addNode(node)
AddNode(url) ==
    /\ pc = "idle"
    /\ Len(manualNodes) < MaxManual
    /\ manualNodes' = <<[id |-> FreshId, url |-> url]>> \o manualNodes
    /\ manualNodesCurrentPage' =
           IF Len(paginatedManualNodes(manualNodes', manualNodesCurrentPage, manualNodesPerPage))
                  >= manualNodesPerPage
           THEN 1 ELSE manualNodesCurrentPage
    /\ op' = "addNode"
    /\ prevOp' = op
    /\ UNCHANGED <<pc, inContent, inNodes, inSubName, inOptions, attempts, filtered, returned,
                   raised, subs, toast, genVars, extVars>>

\* deleteNode(nodeId)
DeleteNode(nodeId) ==
    /\ pc = "idle"
    /\ LET other(n) == n.id # nodeId
       IN manualNodes' = SelectSeq(manualNodes, other)
    /\ manualNodesCurrentPage' =
           IF /\ paginatedManualNodes(manualNodes', manualNodesCurrentPage, manualNodesPerPage) = <<>>
              /\ manualNodesCurrentPage > 1
           THEN manualNodesCurrentPage - 1 ELSE manualNodesCurrentPage
    /\ op' = "deleteNode"
    /\ prevOp' = op
    /\ UNCHANGED <<pc, inContent, inNodes, inSubName, inOptions, attempts, filtered, returned,
                   raised, subs, toast, genVars, extVars>>

\* deleteAllNodes()
DeleteAllNodes ==
    /\ pc = "idle"
    /\ manualNodes' = <<>>
    /\ manualNodesCurrentPage' = 1
    /\ op' = "deleteAllNodes"
    /\ prevOp' = op
    /\ UNCHANGED <<pc, inContent, inNodes, inSubName, inOptions, attempts, filtered, returned,
                   raised, subs, toast, genVars, extVars>>

\* deduplicateNodes(), with the toast it shows
DeduplicateNodes ==
    /\ pc = "idle"
    /\ manualNodes' = deduplicateNodes(manualNodes)
    /\ LET removedCount == Len(manualNodes) - Len(manualNodes')
       IN toast' = [kind |-> IF removedCount > 0 THEN "success" ELSE "info",
                    removed |-> removedCount]
    /\ op' = "deduplicateNodes"
    /\ prevOp' = op
    /\ UNCHANGED <<pc, inContent, inNodes, inSubName, inOptions, attempts, filtered, returned,
                   raised, subs, manualNodesCurrentPage, genVars, extVars>>

NextManual ==
    \/ \E url \in ManualUrls : AddNode(url)
    \/ \E nodeId \in 1..MaxManual : DeleteNode(nodeId)
    \/ DeleteAllNodes
    \/ DeduplicateNodes

SpecManual == InitManual /\ [][NextManual]_vars

(********************************** codec **********************************)

\* either a structured proxy is about to be encoded, or a share-URI met in a
\* subscription is about to be decoded
InitCodec ==
    /\ op = "codec"
    /\ \/ /\ pc = "call"
          /\ inProxy \in CodecProxies
          /\ encoded = NoUrl
       \/ /\ pc = "encoded"
          /\ inProxy = NoProxy
          /\ encoded \in CodecUrls
    /\ decoded = NoProxy
    /\ target = "none"
    /\ document = NoDocument
    /\ inContent = BaseContent
    /\ inNodes = <<>>
    /\ inSubName = <<>>
    /\ inOptions = [exclude |-> <<>>, prependSubName |-> FALSE]
    /\ attempts = <<>>
    /\ filtered = <<>>
    /\ returned = <<>>
    /\ raised = FALSE
    /\ subs = <<>>
    /\ NoManualNodes
    /\ NoExt

\* convertClashProxyToUrl(proxy)
ConvertClashProxyToUrl ==
    /\ pc = "call" /\ op = "codec"
    /\ encoded' = convertClashProxyToUrl(inProxy)
    /\ pc' = "encoded"
    /\ UNCHANGED <<op, inContent, inNodes, inSubName, inOptions, attempts, filtered, returned,
                   raised, subs, uiVars, inProxy, decoded, target, document, extVars>>

\* urlToClashProxy(node.url, node.name, node.protocol) on the node that
\* parseClashProxies, or parseNodeLine, makes of the share-URI
UrlToClashProxy ==
    /\ pc = "encoded" /\ op = "codec"
    /\ encoded # NoUrl
    /\ decoded' = IF inProxy = NoProxy
                  THEN urlToClashProxy(encoded, parseNodeLine(encoded).name,
                                       parseNodeLine(encoded).protocol)
                  ELSE urlToClashProxy(encoded, OrElse(inProxy.name, Unnamed),
                                       toLowerCase(inProxy.type))
    /\ pc' = "done"
    /\ UNCHANGED <<op, inContent, inNodes, inSubName, inOptions, attempts, filtered, returned,
                   raised, subs, uiVars, inProxy, encoded, target, document, extVars>>

NextCodec == ConvertClashProxyToUrl \/ UrlToClashProxy

SpecCodec == InitCodec /\ [][NextCodec]_vars

(******************************* generators ********************************)

\* a conversion request is pending: the node list and the target format
InitEmit ==
    /\ pc = "call"
    /\ op = "generate"
    /\ target \in Targets
    /\ inNodes \in SeqsUpTo(EmitNodes, MaxEmit)
    /\ document = NoDocument
    /\ inProxy = NoProxy
    /\ encoded = NoUrl
    /\ decoded = NoProxy
    /\ inContent = BaseContent
    /\ inSubName = <<>>
    /\ inOptions = [exclude |-> <<>>, prependSubName |-> FALSE]
    /\ attempts = <<>>
    /\ filtered = <<>>
    /\ returned = <<>>
    /\ raised = FALSE
    /\ subs = <<>>
    /\ NoManualNodes
    /\ NoExt

\* ConfigGenerator.generateClashMeta / generateSingBox / generateSurge /
\* generateLoon (nodes, subName)
\* inNodes are the node objects of the caller, as the call leaves them
Generate(t, generated, nodesAfter) ==
    /\ pc = "call" /\ op = "generate" /\ target = t
    /\ document' = generated
    /\ inNodes' = nodesAfter
    /\ pc' = "done"
    /\ UNCHANGED <<op, inContent, inSubName, inOptions, attempts, filtered, returned,
                   raised, subs, uiVars, inProxy, encoded, decoded, target, extVars>>

GenerateClashMeta ==
    \E doc \in {generateClashMeta(inNodes)} :
        Generate("clash", doc, [i \in 1..Len(inNodes) |-> nodeAfterClashProxy(inNodes[i])])

\* the three other conversions only read the node
GenerateSingBox == \E doc \in {generateSingBox(inNodes)} : Generate("singbox", doc, inNodes)

GenerateSurge == \E doc \in {generateSurge(inNodes)} : Generate("surge", doc, inNodes)

GenerateLoon == \E doc \in {generateLoon(inNodes)} : Generate("loon", doc, inNodes)

NextEmit == GenerateClashMeta \/ GenerateSingBox \/ GenerateSurge \/ GenerateLoon

SpecEmit == InitEmit /\ [][NextEmit]_vars

(***************************** parse: claims *******************************)

ParseDone == op = "parse" /\ pc = "done"

Yielded(e) == ~e.threw /\ e.nodes # <<>>

StrategyRank(m) ==
    CASE m = "parseBase64" -> 1
      [] m = "parseYAML" -> 2
      [] m = "parseClashConfig" -> 2
      [] m = "parseSIP008" -> 3
      [] OTHER -> 4

Range(s) == { s[i] : i \in 1..Len(s) }

\* C1: the strategies run in the order Base64, structured, SIP008, plain
\* text; once a strategy has yielded at least one node no later strategy is
\* run, and the returned nodes come from that first yielding strategy.
C1_FirstYieldWins ==
    ParseDone =>
        /\ \A i, j \in 1..Len(attempts) :
              i < j => StrategyRank(attempts[i].method) <= StrategyRank(attempts[j].method)
        /\ \A i \in 1..Len(attempts) : Yielded(attempts[i]) => i = Len(attempts)
        /\ \A i \in 1..Len(attempts) :
              (Yielded(attempts[i]) /\ \A j \in 1..(i - 1) : ~Yielded(attempts[j]))
                  => /\ Len(returned) = Len(filtered)
                     /\ Range(filtered) \subseteq Range(attempts[i].nodes)

\* C2: a strategy that throws never aborts the pipeline: the next method of
\* the list is still attempted, and when that one yields at least one node
\* its nodes, processed, are what parse returns.
C2_ErrorIsolation ==
    ParseDone =>
        \A i \in 1..Len(attempts) :
            attempts[i].threw =>
                /\ i < Len(MethodsFor(inContent)) =>
                      /\ i < Len(attempts)
                      /\ attempts[i + 1].method = MethodsFor(inContent)[i + 1]
                /\ (i < Len(attempts) /\ Yielded(attempts[i + 1])) =>
                      /\ ~attempts[i + 1].processThrew
                      /\ i + 1 = Len(attempts)
                      /\ Len(returned) = Len(filtered)
                      /\ Range(filtered) \subseteq Range(attempts[i + 1].nodes)

\* C3: parse never raises, and returns the empty list when the content is
\* empty or no string or when no strategy yields a node.
C3_EmptyNeverRaises ==
    ParseDone =>
        /\ ~raised
        /\ (\A i \in 1..Len(attempts) : ~Yielded(attempts[i])) => returned = <<>>

C3_Witness ==
    /\ ParseDone
    /\ Len(attempts) >= 3
    /\ \A i \in 1..Len(attempts) : attempts[i].threw
    /\ returned = <<>>
    /\ ~raised

HasKeepRule(rules) == \E i \in 1..Len(rules) : toLowerCase(rules[i].keep) = "keep:"

\* what a rule list says: the protocol names its proto: rules list and the
\* free-text fragments of its other rules (of its keep: rules when wanted)
RuleIndices(rules, keepOnly) ==
    { i \in 1..Len(rules) : keepOnly => toLowerCase(rules[i].keep) = "keep:" }

ListedProtocols(rules, keepOnly) ==
    { toLowerCase(q) :
        q \in UNION { Range(rules[i].protos) :
                        i \in { k \in RuleIndices(rules, keepOnly) :
                                  toLowerCase(rules[k].proto) = "proto:" } } }

FreeTexts(rules, keepOnly) ==
    { rules[i].text : i \in { k \in RuleIndices(rules, keepOnly) : rules[k].proto = "" } }

ValidTexts(texts) == \A t \in texts : "(" \notin Range(t)

NameMatches(texts, name) == \E t \in texts : Includes(LowerSeq(name), LowerSeq(t))

\* C4: in blacklist mode the nodes parse retains are exactly those whose
\* protocol, whatever the letter case of the scheme it was read from, is in
\* no proto: rule and whose name matches no free-text rule.
C4_BlacklistFilter ==
    (/\ ParseDone
     /\ inOptions.exclude # <<>>
     /\ ~HasKeepRule(inOptions.exclude)
     /\ ValidTexts(FreeTexts(inOptions.exclude, FALSE))
     /\ attempts # <<>>
     /\ Yielded(attempts[Len(attempts)]))
    => LET rules == inOptions.exclude
           notExcluded(n) ==
               /\ toLowerCase(n.protocol) \notin ListedProtocols(rules, FALSE)
               /\ ~NameMatches(FreeTexts(rules, FALSE), n.name)
       IN filtered = SelectSeq(attempts[Len(attempts)].nodes, notExcluded)

(************************* processNodes: claims ****************************)

ProcessDone == op = "processNodes" /\ pc = "done"

\* C5: in whitelist mode processNodes retains a node iff its protocol is in
\* the kept-protocol set or its name matches a kept-name fragment; with the
\* single rule keep:proto:vless,trojan exactly the vless and trojan nodes stay.
C5_WhitelistRetains ==
    (ProcessDone /\ HasKeepRule(inOptions.exclude) /\ ~raised)
    => LET rules == inOptions.exclude
           kept(n) ==
               \/ n.protocol \in ListedProtocols(rules, TRUE)
               \/ NameMatches(FreeTexts(rules, TRUE), n.name)
           vlessOrTrojan(n) == n.protocol \in {"vless", "trojan"}
       IN /\ filtered = SelectSeq(inNodes, kept)
          /\ rules = <<Rule("keep:", "proto:", <<"vless", "trojan">>, <<>>)>>
                => filtered = SelectSeq(inNodes, vlessOrTrojan)

C5_Witness ==
    /\ ProcessDone
    /\ inOptions.exclude = <<Rule("keep:", "proto:", <<"vless", "trojan">>, <<>>)>>
    /\ Len(inNodes) = 2
    /\ Len(filtered) = 1
    /\ filtered[1].protocol = "trojan"

\* C6: with at least one keep: rule the result is the whitelist result of
\* the keep: rules alone, whatever the other rules are; without one no node
\* is dropped unless an exclude rule names its protocol or matches its name.
C6_ModeByKeepOnly ==
    ProcessDone =>
        LET rules == inOptions.exclude
            keepOnly == SelectSeq(rules, LAMBDA r : toLowerCase(r.keep) = "keep:")
            alone == processNodes(inNodes, inSubName, [inOptions EXCEPT !.exclude = keepOnly])
        IN IF HasKeepRule(rules)
           THEN /\ raised = alone.threw
                /\ filtered = alone.filtered
                /\ returned = alone.nodes
           ELSE ~raised =>
                   \A i \in 1..Len(inNodes) :
                       (/\ toLowerCase(inNodes[i].protocol) \notin ListedProtocols(rules, FALSE)
                        /\ ~NameMatches(FreeTexts(rules, FALSE), inNodes[i].name))
                       => inNodes[i] \in Range(filtered)

C6_Witness ==
    /\ ProcessDone
    /\ Len(inOptions.exclude) = 2
    /\ toLowerCase(inOptions.exclude[1].keep) # "keep:"
    /\ inOptions.exclude[1].text = <<"(">>
    /\ toLowerCase(inOptions.exclude[2].keep) = "keep:"
    /\ ~raised
    /\ Len(inNodes) = 2
    /\ Len(filtered) = 1

Prefixing == inOptions.prependSubName /\ inSubName # <<>>

\* the display name a share-URI carries: its last '#' fragment, decoded, or
\* without a fragment the ps member of a VMess body
CarriedName(url) ==
    IF url.frags # <<>>
    THEN LET raw == url.frags[Len(url.frags)]
         IN IF "%" \in Range(raw) THEN raw ELSE [i \in 1..Len(raw) |-> decodeUnit(raw[i])]
    ELSE IF url.body.enc = "b64" /\ url.body.json.obj
              /\ \E i \in 1..Len(url.body.json.pairs) : url.body.json.pairs[i].k = "ps"
    THEN LET p == url.body.json.pairs IN p[CHOOSE i \in 1..Len(p) : p[i].k = "ps"].v
    ELSE <<>>

OtherMembers(url) == { m \in Range(url.body.json.pairs) : m.k # "ps" }

\* a node whose URL is vmess:// followed by the Base64 of a JSON object
DecodableVmess(n) ==
    /\ n.protocol = "vmess"
    /\ n.url.scheme = "vmess"
    /\ n.url.frags = <<>>
    /\ n.url.body.enc = "b64"
    /\ n.url.body.json.obj

FragmentReplaced(old, new) ==
    /\ new.url.scheme = old.url.scheme
    /\ new.url.body = old.url.body
    /\ Len(new.url.frags) = (IF old.url.frags = <<>> THEN 1 ELSE Len(old.url.frags))
    /\ \A i \in 1..(Len(new.url.frags) - 1) : new.url.frags[i] = old.url.frags[i]

PsRewritten(old, new) ==
    /\ new.url.scheme = "vmess"
    /\ new.url.frags = <<>>
    /\ new.url.body.enc = "b64"
    /\ new.url.body.json.obj
    /\ OtherMembers(new.url) = OtherMembers(old.url)

\* the prefixing rule, ps being rewritten for the nodes that vmessCase selects
PrefixRule(vmessCase(_)) ==
    /\ Len(returned) = Len(filtered)
    /\ \A i \in 1..Len(filtered) :
          LET old == filtered[i]
              new == returned[i]
          IN IF startsWith(old.name, inSubName) THEN new = old
             ELSE /\ new.name = inSubName \o <<" ", "-", " ">> \o old.name
                  /\ new.protocol = old.protocol
                  /\ CarriedName(new.url) = new.name
                  /\ IF vmessCase(old) THEN PsRewritten(old, new)
                     ELSE FragmentReplaced(old, new)
    /\ processNodes(returned, inSubName, [exclude |-> <<>>, prependSubName |-> TRUE]).nodes
          = returned

CombinedDone == op = "generateCombinedNodeList" /\ pc = "done"

\* two share-URIs identical except for what follows the first '#'
SameButFragment(u, v) == u.scheme = v.scheme /\ u.body = v.body

\* C8: in the combined node list, nodes whose share-URIs are identical except
\* for their #fragment yield exactly one node, the first occurrence: for
\* every node of the concatenated list that has a URL, exactly one returned
\* node has that URL up to the fragment, and it is the first such node of the
\* concatenated list.
C8_FragmentDuplicatesMerged ==
    CombinedDone =>
        \A i \in 1..Len(filtered) :
            filtered[i].url # NoUrl =>
                LET alike == { k \in 1..Len(filtered) :
                                 /\ filtered[k].url # NoUrl
                                 /\ SameButFragment(filtered[k].url, filtered[i].url) }
                    first == CHOOSE k \in alike : \A m \in alike : k <= m
                    kept == { k \in 1..Len(returned) :
                                SameButFragment(returned[k].url, filtered[i].url) }
                IN /\ Cardinality(kept) = 1
                   /\ \A k \in kept : returned[k] = filtered[first]

(************************ manual node list: claims *************************)

\* a VMess URI as getUniqueKey recognises it, whose body decodes to a JSON
\* object
IsVmessUri(u) == u.scheme = "vmess" /\ ~atobThrows(u) /\ atob(u).obj

\* the members of the decoded JSON other than the display names
UnnamedMembers(u) == { m \in Range(atob(u).pairs) : m.k \notin {"ps", "remark"} }

\* two VMess URIs whose JSON has the same members but ps and remark, in any
\* order, or two URIs of another scheme that are the same up to the '#'
DifferOnlyInName(u, v) ==
    IF IsVmessUri(u) /\ IsVmessUri(v) THEN UnnamedMembers(u) = UnnamedMembers(v)
    ELSE /\ u.scheme # "vmess"
         /\ u.scheme = v.scheme
         /\ u.body = v.body

FirstOfEachKey(nodes) ==
    LET isFirst(i) == \A j \in 1..(i - 1) : getUniqueKey(nodes[j].url) # getUniqueKey(nodes[i].url)
        F[i \in 0..Len(nodes)] ==
            IF i = 0 THEN <<>>
            ELSE IF isFirst(i) THEN Append(F[i - 1], nodes[i]) ELSE F[i - 1]
    IN F[Len(nodes)]

NoSharedKey(nodes) ==
    \A i, j \in 1..Len(nodes) :
        i # j => getUniqueKey(nodes[i].url) # getUniqueKey(nodes[j].url)

\* C10: deduplicateNodes keeps, on any list, the first node of each
\* fingerprint in the original order, and is idempotent: run right after a
\* de-duplication, or on any list in which no two nodes share a fingerprint,
\* it removes nothing and leaves the list identical.
C10_DedupIdempotent ==
    [][op' = "deduplicateNodes" =>
          /\ manualNodes' = FirstOfEachKey(manualNodes)
          /\ toast'.removed = Len(manualNodes) - Len(manualNodes')
          /\ (op = "deduplicateNodes" \/ NoSharedKey(manualNodes))
                 => /\ manualNodes' = manualNodes
                    /\ toast' = [kind |-> "info", removed |-> 0]]_vars

\* a second de-duplication in a row has run on a list of several nodes
C10_Witness ==
    /\ op = "deduplicateNodes"
    /\ prevOp = "deduplicateNodes"
    /\ toast = [kind |-> "info", removed |-> 0]
    /\ Len(manualNodes) >= 2
    /\ NoSharedKey(manualNodes)

(************************ pipeline output: claims **************************)

\* a share-URI with a host and a port; of a VMess JSON the model keeps the
\* host member (add) only
HasEndpoint(url) ==
    IF url.body.enc = "plain" THEN url.body.host # <<>> /\ url.body.port # 0
    ELSE url.body.json.obj /\ HasMember(url.body.json.pairs, "add")

\* C11: every node returned by parse whose protocol is not unknown has a
\* host and a port (a line or entry lacking them produces no node).
C11_NodesHaveEndpoint ==
    ParseDone =>
        \A i \in 1..Len(returned) :
            returned[i].protocol # "unknown" => HasEndpoint(returned[i].url)

\* a payload that only the plain text strategy is tried on
PlainPayload(content) ==
    content.isString /\ ~content.empty /\ MethodsFor(content) = <<"parsePlainText">>

\* C12: every node of the pipeline has a protocol, and a line whose URI scheme
\* is not one of the recognized protocols is not discarded: with no filter
\* and no prefixing, it yields a node with protocol unknown carrying the URI.
C12_UnknownSchemeKept ==
    ParseDone =>
        /\ \A i \in 1..Len(returned) : returned[i].protocol # ""
        /\ (PlainPayload(inContent) /\ inOptions.exclude = <<>> /\ ~inOptions.prependSubName)
               => \A k \in 1..Len(inContent.lines) :
                      (inContent.lines[k].scheme # "" /\ ~isNodeUrl(inContent.lines[k]))
                          => \E i \in 1..Len(returned) :
                                 /\ returned[i].protocol = "unknown"
                                 /\ returned[i].url = inContent.lines[k]

(***************************** codec: claims *******************************)

CodecDone == op = "codec" /\ pc = "done"

SupportedTypes == {"vmess", "vless", "trojan", "ss"}

\* the fields a protocol requires of a structured proxy
HasRequiredFields(d) ==
    /\ d.server # <<>> /\ d.port # 0
    /\ CASE toLowerCase(d.type) \in {"vmess", "vless"} -> d.uuid # <<>>
         [] toLowerCase(d.type) = "trojan" -> d.password # <<>>
         [] toLowerCase(d.type) = "ss" -> d.cipher # <<>> /\ d.password # <<>>
         [] OTHER -> FALSE

\* C13: for every supported protocol and every structured proxy with the
\* protocol's required fields, decoding the share-URI it encodes to gives a
\* proxy with the same protocol, server, port and credential (cipher,
\* password, uuid).
C13_RoundTrip ==
    (CodecDone /\ inProxy # NoProxy /\ HasRequiredFields(inProxy)) =>
        /\ decoded # NoProxy
        /\ decoded.type = toLowerCase(inProxy.type)
        /\ decoded.server = inProxy.server
        /\ decoded.port = inProxy.port
        /\ CASE decoded.type \in {"vmess", "vless"} -> decoded.uuid = inProxy.uuid
             [] decoded.type = "trojan" -> decoded.password = inProxy.password
             [] OTHER -> decoded.cipher = inProxy.cipher /\ decoded.password = inProxy.password

\* a structured VLESS proxy with a Reality bundle (public key and short id)
\* that has been encoded
RealityEncoded ==
    /\ op = "codec" /\ pc \in {"encoded", "done"}
    /\ inProxy # NoProxy
    /\ toLowerCase(inProxy.type) = "vless"
    /\ inProxy.reality.present
    /\ inProxy.reality.pbk # <<>> /\ inProxy.reality.sid # <<>>
    /\ encoded # NoUrl

\* C14: the share-URI of a VLESS proxy that carries a Reality bundle has
\* security=reality with the bundle's pbk and sid, never security=tls, with
\* or without tls=true; and a VLESS URI with security=reality decodes to a
\* proxy whose reality options have the URI's public key and short id.
C14_RealityPrecedence ==
    /\ RealityEncoded =>
           encoded.body.query = [security |-> "reality", pbk |-> inProxy.reality.pbk,
                                 sid |-> inProxy.reality.sid]
    /\ (CodecDone /\ encoded.scheme = "vless" /\ encoded.body.query.security = "reality") =>
           decoded.reality = [present |-> TRUE, pbk |-> encoded.body.query.pbk,
                              sid |-> encoded.body.query.sid]

C14_Witness ==
    /\ CodecDone /\ RealityEncoded
    /\ inProxy.tls
    /\ encoded.body.query.security = "reality"
    /\ decoded.reality = inProxy.reality

(*************************** generators: claims ****************************)

EmitDone == op = "generate" /\ pc = "done"

GroupNames == { document.groups[g].name : g \in 1..Len(document.groups) }

ProxyNames == { document.proxies[i].name : i \in 1..Len(document.proxies) }

\* C15: in the document of every emitter, for every node list, no group has
\* an empty member list, every member of a group is the name of an emitted
\* proxy, the name of an emitted group or DIRECT, and with no emitted proxy
\* the groups refer to DIRECT and to each other only.
C15_GroupsResolve ==
    EmitDone =>
        \A g \in 1..Len(document.groups) :
            LET members == document.groups[g].members
            IN /\ members # <<>>
               /\ \A m \in 1..Len(members) :
                      /\ members[m] # <<>>
                      /\ members[m] \in ProxyNames \cup GroupNames \cup {Direct}
                      /\ document.proxies = <<>> => members[m] \in GroupNames \cup {Direct}

\* the protocols each target format has a conversion for
SupportedBy(t) ==
    CASE t = "clash" -> {"ss", "vmess", "vless", "hysteria2", "hy2", "trojan", "tuic", "anytls"}
      [] t = "singbox" -> {"hy2", "hysteria2", "vless", "vmess", "trojan", "ss", "ssr", "tuic"}
      [] t = "surge" -> {"ss", "vmess", "trojan", "tuic", "hysteria2", "hy2"}
      [] OTHER -> {"ss", "vmess", "vless", "trojan", "hysteria2", "hy2"}

UndecodableVmess(node) ==
    /\ node.protocol = "vmess" /\ node.url.scheme = "vmess"
    /\ (atobThrows(node.url) \/ ~atob(node.url).obj)

\* a node the target format cannot represent: unsupported protocol,
\* unparsable URI, undecodable VMess body
Unrepresentable(node, t) ==
    \/ node.protocol \notin SupportedBy(t)
    \/ newURLThrows(node.url)
    \/ UndecodableVmess(node)

\* C16: every emitter returns a document for every node list, in which a
\* node that cannot be represented in the target format has no proxy entry
\* and every other node's entry is there.
C16_UnrepresentableDropped ==
    EmitDone =>
        /\ Len(document.converted) = Len(inNodes)
        /\ document.proxies = NotNull(document.converted)
        /\ \A i \in 1..Len(inNodes) :
               Unrepresentable(inNodes[i], target) => document.converted[i] = NoProxy

\* C17: the Sing-Box emitter gives the outbound of a node the type
\* shadowsocks for ss, shadowsocksr for ssr, and the node's own protocol tag
\* for every other protocol.
C17_SingBoxTypeMap ==
    (EmitDone /\ target = "singbox") =>
        \A i \in 1..Len(inNodes) :
            document.converted[i] # NoProxy =>
                document.converted[i].type =
                    CASE inNodes[i].protocol = "ss" -> "shadowsocks"
                      [] inNodes[i].protocol = "ssr" -> "shadowsocksr"
                      [] OTHER -> inNodes[i].protocol

\* C18: neither the Surge nor the Loon document has a proxy line for a node
\* whose protocol is vless: its conversion is null.
C18_IniSkipsVless ==
    (EmitDone /\ target \in {"surge", "loon"}) =>
        \A i \in 1..Len(inNodes) :
            inNodes[i].protocol = "vless" => document.converted[i] = NoProxy

\* C18, as the code has it: the Surge document has no proxy line for a node
\* whose protocol is vless (its conversion is null), and the Loon document
\* has a vless line with the node's host, port and uuid for every vless node
\* whose URL parses.
C18_SurgeSkipsLoonEmitsVless ==
    EmitDone =>
        \A i \in 1..Len(inNodes) :
            inNodes[i].protocol = "vless" =>
                /\ target = "surge" => document.converted[i] = NoProxy
                /\ target = "loon" =>
                       IF newURLThrows(inNodes[i].url) THEN document.converted[i] = NoProxy
                       ELSE /\ document.converted[i].type = "vless"
                            /\ document.converted[i].server = inNodes[i].url.body.host
                            /\ document.converted[i].port = inNodes[i].url.body.port
                            /\ document.converted[i].uuid = username(inNodes[i].url.body.user)

C18_Witness ==
    /\ EmitDone /\ target = "loon"
    /\ \E i \in 1..Len(inNodes) :
           /\ inNodes[i].protocol = "vless"
           /\ document.converted[i].type = "vless"
           /\ document.converted[i] \in Range(document.proxies)

\* the text a Base64 userinfo decodes to
Atob(text) == SubSeq(text, 2, Len(text) - 1)

IsBase64Userinfo(text) == Len(text) >= 2 /\ text[1] = "b64[" /\ text[Len(text)] = "]"

\* C20: the Clash-Meta entry of a Shadowsocks node whose URI is
\* ss://Base64(method:password)@host:port has type ss, the method as cipher
\* and the password of the Base64 userinfo as password.
C20_ClashSsCredentials ==
    (EmitDone /\ target = "clash") =>
        \A i \in 1..Len(inNodes) :
            LET node == inNodes[i]
            IN (/\ node.protocol = "ss" /\ node.url.scheme = "ss"
                /\ node.originalProxy = NoProxy
                /\ IsBase64Userinfo(node.url.body.user)) =>
                   /\ document.converted[i].type = "ss"
                   /\ document.converted[i].cipher = username(Atob(node.url.body.user))
                   /\ document.converted[i].password = password(Atob(node.url.body.user))

(***************************** SIP008: claims ******************************)

\* a server entry with server, server_port, method and password
CompleteEntry(sv) ==
    sv.server # <<>> /\ sv.port # 0 /\ sv.method # <<>> /\ sv.password # <<>>

CompleteEntries(servers) == SelectSeq(servers, CompleteEntry)

Sip008Payload(content) == content.isString /\ ~content.empty /\ content.brace /\ content.jsonOk

\* C19: for a SIP008 payload the pipeline returns one node per server entry
\* that has server, server_port, method and password, in input order, each
\* with protocol ss and an ss:// URI of the entry's host and port; the other
\* entries give no node and do not keep the complete ones from being returned.
C19_Sip008OnePerEntry ==
    (ParseDone /\ Sip008Payload(inContent) /\ inOptions.exclude = <<>>) =>
        LET entries == CompleteEntries(inContent.servers)
        IN /\ ~raised
           /\ Len(returned) = Len(entries)
           /\ \A i \in 1..Len(returned) :
                  /\ returned[i].protocol = "ss"
                  /\ returned[i].url.scheme = "ss"
                  /\ returned[i].url.body.host = entries[i].server
                  /\ returned[i].url.body.port = entries[i].port

(***************************** frame: claims *******************************)

\* C21: no emitter mutates its input: when generateClashMeta, generateSingBox,
\* generateSurge or generateLoon returns, every node of the input list, its
\* originalProxy object included, has the field values it had before the call.
C21_EmittersKeepInput == [][op = "generate" => inNodes' = inNodes]_vars

C21_Witness ==
    /\ EmitDone /\ target = "clash"
    /\ \E i \in 1..Len(inNodes) :
           /\ inNodes[i].originalProxy # NoProxy
           /\ inNodes[i].originalProxy.name # inNodes[i].name
           /\ document.converted[i].name = inNodes[i].name


(******************************** dashboard ********************************)

\* the most UUIDs drawn in one run of the dashboard
MaxUuids == 4

profilesPerPage == 6

subsItemsPerPage == 6

\* Math.ceil(list.length / perPage)
TotalPages(list, perPage) == (Len(list) + perPage - 1) \div perPage

\* ids.indexOf(id), then ids.splice(index, 1)
SpliceFirst(ids, id) ==
    IF \A i \in 1..Len(ids) : ids[i] # id THEN ids
    ELSE LET index == CHOOSE i \in 1..Len(ids) :
                          ids[i] = id /\ \A j \in 1..(i - 1) : ids[j] # id
         IN SubSeq(ids, 1, index - 1) \o SubSeq(ids, index + 1, Len(ids))

\* removeIdFromProfiles(id, field): the new value of profiles
removeIdFromProfiles(ps, id, field) ==
    [k \in 1..Len(ps) |-> [ps[k] EXCEPT ![field] = SpliceFirst(@, id)]]

\* clearProfilesField(field): the new value of profiles
clearProfilesField(ps, field) ==
    [k \in 1..Len(ps) |-> [ps[k] EXCEPT ![field] = <<>>]]

\* deleteSubscription(subId) and deleteNode(nodeId), alike: the new list and
\* the new current page
deleteItem(list, page, perPage, id) ==
    LET other(s) == s.id # id
        kept == SelectSeq(list, other)
    IN [list |-> kept,
        page |-> IF paginatedManualNodes(kept, page, perPage) = <<>> /\ page > 1
                 THEN page - 1 ELSE page]

\* ids.forEach(id => { deleteX(id); removeIdFromProfiles(id, field) })
RECURSIVE deleteEach(_, _, _, _, _, _)
deleteEach(ids, list, page, perPage, ps, field) ==
    IF ids = <<>> THEN [list |-> list, page |-> page, profiles |-> ps]
    ELSE LET d == deleteItem(list, page, perPage, Head(ids))
         IN deleteEach(Tail(ids), d.list, d.page, perPage,
                       removeIdFromProfiles(ps, Head(ids), field), field)

\* the ids of a list, in the order of the list
IdsOf(list) == [i \in 1..Len(list) |-> list[i].id]

\* the selections of a list of ids: its subsequences
RECURSIVE Selections(_)
Selections(ids) ==
    IF ids = <<>> THEN {<<>>}
    ELSE LET rest == Selections(Tail(ids))
         IN rest \cup {<<Head(ids)>> \o r : r \in rest}

\* the node URLs typed in the dashboard: two names of one server
DashUrls ==
    { Url("trojan", PlainBody(<<"h">>, 443), <<<<"a">>>>),
      Url("trojan", PlainBody(<<"h">>, 443), <<<<"k">>, <<"a">>>>) }

InitDashboard ==
    /\ pc = "idle"
    /\ op = "none"
    /\ NoCore
    /\ NoManualNodes
    /\ NoGenerator
    /\ NoDashboard
    /\ NoUpdating
    /\ NoServer
    /\ NoPersistence

\* what no handler of the dashboard's lists touches
dashFrame == <<pc, coreVars, genVars, prevOp, asyncVars, srvVars, persistVars>>

\* handleSaveSubscription for a new subscription
HandleSaveSubscription ==
    /\ pc = "idle" /\ uuids < MaxUuids
    /\ uuids' = uuids + 1
    /\ subscriptions' = <<[id |-> uuids']>> \o subscriptions
    /\ subsCurrentPage' =
           IF Len(paginatedManualNodes(subscriptions', subsCurrentPage, subsItemsPerPage))
                  >= subsItemsPerPage
           THEN 1 ELSE subsCurrentPage
    /\ op' = "handleSaveSubscription"
    /\ UNCHANGED <<dashFrame, manualNodes, manualNodesCurrentPage, toast, profiles,
                   profilesCurrentPage>>

\* handleSaveNode for a new node
HandleSaveNode(url) ==
    /\ pc = "idle" /\ uuids < MaxUuids
    /\ uuids' = uuids + 1
    /\ manualNodes' = <<[id |-> uuids', url |-> url]>> \o manualNodes
    /\ manualNodesCurrentPage' =
           IF Len(paginatedManualNodes(manualNodes', manualNodesCurrentPage, manualNodesPerPage))
                  >= manualNodesPerPage
           THEN 1 ELSE manualNodesCurrentPage
    /\ op' = "handleSaveNode"
    /\ UNCHANGED <<dashFrame, toast, subscriptions, subsCurrentPage, profiles,
                   profilesCurrentPage>>

\* handleSaveProfile for a new profile, with the subscriptions and the nodes
\* ticked in the modal
HandleSaveProfile(subIds, nodeIds) ==
    /\ pc = "idle" /\ uuids < MaxUuids
    /\ uuids' = uuids + 1
    /\ profiles' = <<[id |-> uuids', subscriptions |-> subIds, manualNodes |-> nodeIds]>>
                       \o profiles
    /\ profilesCurrentPage' = 1
    /\ op' = "handleSaveProfile"
    /\ UNCHANGED <<dashFrame, manualNodes, manualNodesCurrentPage, toast, subscriptions,
                   subsCurrentPage>>

\* handleConfirmDeleteSingleSub, and handleBatchDeleteSubs(subIds)
HandleBatchDeleteSubs(handler, subIds) ==
    /\ pc = "idle" /\ subIds # <<>>
    /\ \E d \in {deleteEach(subIds, subscriptions, subsCurrentPage, subsItemsPerPage,
                            profiles, "subscriptions")} :
           /\ subscriptions' = d.list
           /\ subsCurrentPage' = d.page
           /\ profiles' = d.profiles
    /\ op' = handler
    /\ UNCHANGED <<dashFrame, manualNodes, manualNodesCurrentPage, toast, profilesCurrentPage,
                   uuids>>

\* handleDeleteAllSubscriptionsWithCleanup
HandleDeleteAllSubscriptionsWithCleanup ==
    /\ pc = "idle"
    /\ subscriptions' = <<>>
    /\ subsCurrentPage' = 1
    /\ profiles' = clearProfilesField(profiles, "subscriptions")
    /\ op' = "handleDeleteAllSubscriptionsWithCleanup"
    /\ UNCHANGED <<dashFrame, manualNodes, manualNodesCurrentPage, toast, profilesCurrentPage,
                   uuids>>

\* handleConfirmDeleteSingleNode, and handleBatchDeleteNodes(nodeIds)
HandleBatchDeleteNodes(handler, nodeIds) ==
    /\ pc = "idle" /\ nodeIds # <<>>
    /\ \E d \in {deleteEach(nodeIds, manualNodes, manualNodesCurrentPage, manualNodesPerPage,
                            profiles, "manualNodes")} :
           /\ manualNodes' = d.list
           /\ manualNodesCurrentPage' = d.page
           /\ profiles' = d.profiles
    /\ op' = handler
    /\ UNCHANGED <<dashFrame, toast, subscriptions, subsCurrentPage, profilesCurrentPage, uuids>>

\* handleDeleteAllNodesWithCleanup
HandleDeleteAllNodesWithCleanup ==
    /\ pc = "idle"
    /\ manualNodes' = <<>>
    /\ manualNodesCurrentPage' = 1
    /\ profiles' = clearProfilesField(profiles, "manualNodes")
    /\ op' = "handleDeleteAllNodesWithCleanup"
    /\ UNCHANGED <<dashFrame, toast, subscriptions, subsCurrentPage, profilesCurrentPage, uuids>>

\* handleDeduplicateNodes
HandleDeduplicateNodes ==
    /\ pc = "idle"
    /\ manualNodes' = deduplicateNodes(manualNodes)
    /\ LET removedCount == Len(manualNodes) - Len(manualNodes')
       IN toast' = [kind |-> IF removedCount > 0 THEN "success" ELSE "info",
                    removed |-> removedCount]
    /\ op' = "handleDeduplicateNodes"
    /\ UNCHANGED <<dashFrame, manualNodesCurrentPage, dashVars>>

NextDashboard ==
    \/ HandleSaveSubscription
    \/ \E url \in DashUrls : HandleSaveNode(url)
    \/ \E subIds \in Selections(IdsOf(subscriptions)), nodeIds \in Selections(IdsOf(manualNodes)) :
           HandleSaveProfile(subIds, nodeIds)
    \/ \E i \in 1..Len(subscriptions) :
           HandleBatchDeleteSubs("handleConfirmDeleteSingleSub", <<subscriptions[i].id>>)
    \/ \E subIds \in Selections(IdsOf(subscriptions)) :
           HandleBatchDeleteSubs("handleBatchDeleteSubs", subIds)
    \/ HandleDeleteAllSubscriptionsWithCleanup
    \/ \E i \in 1..Len(manualNodes) :
           HandleBatchDeleteNodes("handleConfirmDeleteSingleNode", <<manualNodes[i].id>>)
    \/ \E nodeIds \in Selections(IdsOf(manualNodes)) :
           HandleBatchDeleteNodes("handleBatchDeleteNodes", nodeIds)
    \/ HandleDeleteAllNodesWithCleanup
    \/ HandleDeduplicateNodes

SpecDashboard == InitDashboard /\ [][NextDashboard]_vars

(**************************** dashboard: claims ****************************)

\* every id a profile lists is the id of a subscription, or of a manual node
Listed(ids, list) == \A k \in 1..Len(ids) : \E i \in 1..Len(list) : list[i].id = ids[k]

\* C22: profile referential integrity: after any sequence of dashboard
\* operations on subscriptions and manual nodes (add, single delete, batch
\* delete, delete all, de-duplicate), every id listed in a profile's
\* subscriptions or manualNodes is the id of a subscription or manual node
\* that still exists.
C22_ProfilesReferExisting ==
    \A p \in 1..Len(profiles) :
        /\ Listed(profiles[p].subscriptions, subscriptions)
        /\ Listed(profiles[p].manualNodes, manualNodes)

(******************************* pagination ********************************)

\* the longest list the pagination is exercised on
MaxItems == 13

\* a profile that lists nothing, and a subscription
EmptyProfile(id) == [id |-> id, subscriptions |-> <<>>, manualNodes |-> <<>>]

Subscription(id) == [id |-> id]

\* the pages changeProfilesPage and changeSubsPage can have led to
PagesOf(list, perPage) ==
    IF TotalPages(list, perPage) = 0 THEN {1} ELSE 1..TotalPages(list, perPage)

\* one of the two lists holds n items and shows one of its pages; an
\* operation on that list is about to run
InitPages ==
    /\ pc = "call"
    /\ op \in {"profiles", "subscriptions"}
    /\ uuids \in 0..MaxItems
    /\ profiles = IF op = "profiles" THEN [i \in 1..uuids |-> EmptyProfile(i)] ELSE <<>>
    /\ subscriptions = IF op = "subscriptions" THEN [i \in 1..uuids |-> Subscription(i)] ELSE <<>>
    /\ profilesCurrentPage \in PagesOf(profiles, profilesPerPage)
    /\ subsCurrentPage \in PagesOf(subscriptions, subsItemsPerPage)
    /\ NoCore
    /\ NoManualNodes
    /\ NoGenerator
    /\ NoUpdating
    /\ NoServer
    /\ NoPersistence

\* what no operation on the two lists touches
pagesFrame == <<op, coreVars, uiVars, genVars, asyncVars, srvVars, persistVars>>

\* changeProfilesPage(page)
ChangeProfilesPage(page) ==
    /\ pc = "call" /\ op = "profiles"
    /\ profilesCurrentPage' =
           IF page < 1 \/ page > TotalPages(profiles, profilesPerPage)
           THEN profilesCurrentPage ELSE page
    /\ pc' = "done"
    /\ UNCHANGED <<pagesFrame, profiles, subscriptions, subsCurrentPage, uuids>>

\* addProfile(profile), the share token being configured
AddProfile ==
    /\ pc = "call" /\ op = "profiles"
    /\ uuids' = uuids + 1
    /\ profiles' = <<EmptyProfile(uuids')>> \o profiles
    /\ profilesCurrentPage' = 1
    /\ pc' = "done"
    /\ UNCHANGED <<pagesFrame, subscriptions, subsCurrentPage>>

\* deleteProfile(profileId)
DeleteProfile(profileId) ==
    /\ pc = "call" /\ op = "profiles"
    /\ \E d \in {deleteItem(profiles, profilesCurrentPage, profilesPerPage, profileId)} :
           /\ profiles' = d.list
           /\ profilesCurrentPage' = d.page
    /\ pc' = "done"
    /\ UNCHANGED <<pagesFrame, subscriptions, subsCurrentPage, uuids>>

\* deleteAllProfiles()
DeleteAllProfiles ==
    /\ pc = "call" /\ op = "profiles"
    /\ profiles' = <<>>
    /\ profilesCurrentPage' = 1
    /\ pc' = "done"
    /\ UNCHANGED <<pagesFrame, subscriptions, subsCurrentPage, uuids>>

\* batchDeleteProfiles(profileIds): the new list and the new current page
batchDeleteProfiles(list, page, profileIds) ==
    IF profileIds = <<>> THEN [list |-> list, page |-> page]
    ELSE LET kept(p) == \A k \in 1..Len(profileIds) : profileIds[k] # p.id
             rest == SelectSeq(list, kept)
         IN [list |-> rest,
             page |-> IF paginatedManualNodes(rest, page, profilesPerPage) = <<>> /\ page > 1
                      THEN page - 1 ELSE page]

BatchDeleteProfiles(profileIds) ==
    /\ pc = "call" /\ op = "profiles"
    /\ \E d \in {batchDeleteProfiles(profiles, profilesCurrentPage, profileIds)} :
           /\ profiles' = d.list
           /\ profilesCurrentPage' = d.page
    /\ pc' = "done"
    /\ UNCHANGED <<pagesFrame, subscriptions, subsCurrentPage, uuids>>

\* changeSubsPage(page)
ChangeSubsPage(page) ==
    /\ pc = "call" /\ op = "subscriptions"
    /\ subsCurrentPage' =
           IF page < 1 \/ page > TotalPages(subscriptions, subsItemsPerPage)
           THEN subsCurrentPage ELSE page
    /\ pc' = "done"
    /\ UNCHANGED <<pagesFrame, profiles, profilesCurrentPage, subscriptions, uuids>>

\* addSubscription(sub)
AddSubscription ==
    /\ pc = "call" /\ op = "subscriptions"
    /\ uuids' = uuids + 1
    /\ subscriptions' = <<Subscription(uuids')>> \o subscriptions
    /\ subsCurrentPage' =
           IF Len(paginatedManualNodes(subscriptions', subsCurrentPage, subsItemsPerPage))
                  >= subsItemsPerPage
           THEN 1 ELSE subsCurrentPage
    /\ pc' = "done"
    /\ UNCHANGED <<pagesFrame, profiles, profilesCurrentPage>>

\* deleteSubscription(subId) for one id, handleBatchDeleteSubs for several
DeleteSubscriptions(subIds) ==
    /\ pc = "call" /\ op = "subscriptions"
    /\ subIds # <<>>
    /\ \E d \in {deleteEach(subIds, subscriptions, subsCurrentPage, subsItemsPerPage,
                            profiles, "subscriptions")} :
           /\ subscriptions' = d.list
           /\ subsCurrentPage' = d.page
    /\ pc' = "done"
    /\ UNCHANGED <<pagesFrame, profiles, profilesCurrentPage, uuids>>

\* deleteAllSubscriptions()
DeleteAllSubscriptions ==
    /\ pc = "call" /\ op = "subscriptions"
    /\ subscriptions' = <<>>
    /\ subsCurrentPage' = 1
    /\ pc' = "done"
    /\ UNCHANGED <<pagesFrame, profiles, profilesCurrentPage, uuids>>

NextPages ==
    \/ \E page \in 0..(TotalPages(profiles, profilesPerPage) + 1) : ChangeProfilesPage(page)
    \/ AddProfile
    \/ \E i \in 1..Len(profiles) : DeleteProfile(profiles[i].id)
    \/ DeleteAllProfiles
    \/ \E profileIds \in Selections(IdsOf(profiles)) : BatchDeleteProfiles(profileIds)
    \/ \E page \in 0..(TotalPages(subscriptions, subsItemsPerPage) + 1) : ChangeSubsPage(page)
    \/ AddSubscription
    \/ \E subIds \in Selections(IdsOf(subscriptions)) : DeleteSubscriptions(subIds)
    \/ DeleteAllSubscriptions

SpecPages == InitPages /\ [][NextPages]_vars

(*************************** pagination: claims ****************************)

InRange(list, page, perPage) ==
    /\ page >= 1
    /\ list # <<>> => /\ page <= TotalPages(list, perPage)
                      /\ paginatedManualNodes(list, page, perPage) # <<>>

\* C26: pagination stays in range: after add, delete, batch-delete and
\* delete-all operations on profiles, and likewise on subscriptions, the
\* current page is at least 1 and, whenever the list is non-empty, not
\* greater than the total number of pages, so the current page is never
\* empty while items remain.
C26_PagesInRange ==
    /\ InRange(profiles, profilesCurrentPage, profilesPerPage)
    /\ InRange(subscriptions, subsCurrentPage, subsItemsPerPage)

(*************************** subscription update ***************************)

\* the most subscriptions of the edited list
MaxEdited == 2

\* the subscription links of the dashboard, which HTTP_REGEX accepts
SubUrls == {"http://a", "https://b", "http://c"}

\* what /api/node_count answers for a link, and what fetchNodeCount returns
\* when the request fails
NodeCountOf(url) ==
    [count |-> CASE url = "http://a" -> 1 [] url = "https://b" -> 2 [] OTHER -> 3,
     userInfo |-> <<"info", url>>]

FetchFailed == [count |-> 0, userInfo |-> "null"]

\* a subscription of the list whose count was fetched for its link
FetchedSub(id, url) ==
    [id |-> id, url |-> url, nodeCount |-> NodeCountOf(url).count,
     userInfo |-> NodeCountOf(url).userInfo, isUpdating |-> FALSE]

\* subscriptions.value.findIndex(s => s.id === id), 0 standing for -1
findIndex(list, id) ==
    IF \A i \in 1..Len(list) : list[i].id # id THEN 0
    ELSE CHOOSE i \in 1..Len(list) : list[i].id = id /\ \A j \in 1..(i - 1) : list[j].id # id

InitUpdate ==
    /\ pc = "idle"
    /\ op = "none"
    /\ \E n \in 1..MaxEdited :
           \E urls \in [1..n -> SubUrls] :
               subscriptions = [i \in 1..n |-> FetchedSub(i, urls[i])]
    /\ uuids = Len(subscriptions)
    /\ subsCurrentPage = 1
    /\ profiles = <<>>
    /\ profilesCurrentPage = 1
    /\ NoUpdating
    /\ NoCore
    /\ NoManualNodes
    /\ NoGenerator
    /\ NoServer
    /\ NoPersistence

\* what neither updateSubscription nor handleUpdateNodeCount touches
updateFrame == <<coreVars, uiVars, genVars, subsCurrentPage, profiles, profilesCurrentPage, uuids, srvVars, persistVars>>

\* handleUpdateNodeCount(subId) up to its await: the object found in the list
\* is flagged and its link is sent to fetchNodeCount
StartUpdateNodeCount(list, subId, changed) ==
    LET index == findIndex(list, subId)
    IN IF index = 0 \/ list[index].url \notin SubUrls
       THEN [list |-> list, updating |-> [NoUpdate EXCEPT !.changed = changed]]
       ELSE LET flagged == [list EXCEPT ![index].isUpdating = TRUE]
            IN [list |-> flagged,
                updating |-> [state |-> "awaiting", subToUpdate |-> flagged[index],
                              listed |-> TRUE, url |-> flagged[index].url, changed |-> changed]]

\* subscriptions.value[index] = updatedSub: the list no longer holds the
\* object that was at index
Replace(list, index, updatedSub, u) ==
    [list |-> [list EXCEPT ![index] = updatedSub],
     updating |-> IF u.state = "awaiting" /\ u.subToUpdate.id = list[index].id
                  THEN [u EXCEPT !.listed = FALSE] ELSE u]

\* updateSubscription(updatedSub)
updateSubscription(list, updatedSub) ==
    LET index == findIndex(list, updatedSub.id)
    IN IF index = 0 THEN [list |-> list, updating |-> NoUpdate]
       ELSE IF list[index].url # updatedSub.url
       THEN LET started == StartUpdateNodeCount(list, updatedSub.id, updatedSub.id)
            IN Replace(started.list, index, [updatedSub EXCEPT !.nodeCount = 0],
                       started.updating)
       ELSE Replace(list, index, updatedSub, NoUpdate)

\* handleEditSubscription copies the subscription, the link is edited in the
\* modal and handleSaveSubscription passes the copy to updateSubscription
UpdateSubscription(subId, url) ==
    /\ pc = "idle"
    /\ findIndex(subscriptions, subId) # 0
    /\ \E r \in {updateSubscription(subscriptions,
                     [subscriptions[findIndex(subscriptions, subId)] EXCEPT !.url = url])} :
           /\ subscriptions' = r.list
           /\ updating' = r.updating
           /\ pc' = IF r.updating.state = "awaiting" THEN "awaiting" ELSE "idle"
    /\ op' = "updateSubscription"
    /\ UNCHANGED updateFrame

\* handleUpdateNodeCount(subId) called for a subscription of the list
HandleUpdateNodeCount(subId) ==
    /\ pc = "idle"
    /\ \E r \in {StartUpdateNodeCount(subscriptions, subId, 0)} :
           /\ subscriptions' = r.list
           /\ updating' = r.updating
           /\ pc' = IF r.updating.state = "awaiting" THEN "awaiting" ELSE "idle"
    /\ op' = "handleUpdateNodeCount"
    /\ UNCHANGED updateFrame

\* fetchNodeCount resolves and handleUpdateNodeCount runs to its end: the
\* count, the user info and the flag are written to subToUpdate
FetchNodeCountResolves(data) ==
    /\ pc = "awaiting"
    /\ LET written == [updating.subToUpdate EXCEPT
                           !.nodeCount = data.count,
                           !.userInfo = IF data.userInfo = "null" THEN "undefined"
                                        ELSE data.userInfo,
                           !.isUpdating = FALSE]
       IN /\ updating' = [updating EXCEPT !.state = "done", !.subToUpdate = written]
          /\ subscriptions' =
                 IF updating.listed
                 THEN [subscriptions EXCEPT ![findIndex(subscriptions, written.id)] = written]
                 ELSE subscriptions
    /\ pc' = "idle"
    /\ UNCHANGED <<op, updateFrame>>

NextUpdate ==
    \/ \E subId \in 1..MaxEdited, url \in SubUrls : UpdateSubscription(subId, url)
    \/ \E subId \in 1..MaxEdited : HandleUpdateNodeCount(subId)
    \/ FetchNodeCountResolves(NodeCountOf(updating.url))
    \/ FetchNodeCountResolves(FetchFailed)

SpecUpdate == InitUpdate /\ [][NextUpdate]_vars

(*********************** subscription update: claims ***********************)

\* the subscription of the list whose link updateSubscription has changed
ChangedSub == subscriptions[findIndex(subscriptions, updating.changed)]

\* C25: when updateSubscription is called with a changed URL, the
\* subscription stored in the list has its node count reset to 0 and the
\* count is fetched for the new URL; once the fetch has completed, the
\* subscription held in the list carries the node count and the user info
\* returned for the new URL, and its isUpdating flag is false.
C25_ChangedUrlRefetched ==
    (op = "updateSubscription" /\ updating.changed # 0) =>
        /\ updating.state = "awaiting" =>
               /\ ChangedSub.nodeCount = 0
               /\ updating.url = ChangedSub.url
        /\ (updating.state = "done" /\ updating.subToUpdate.nodeCount # 0) =>
               /\ ChangedSub.nodeCount = NodeCountOf(ChangedSub.url).count
               /\ ChangedSub.userInfo = NodeCountOf(ChangedSub.url).userInfo
               /\ ~ChangedSub.isUpdating

(********************************* sessions ********************************)

\* the last hour of the clock, and the most logins of a run
MaxClock == 10

MaxLogins == 2

\* 8 * 60 * 60 * 1000 ms, the clock counting hours
SESSION_DURATION == 8

\* env.ADMIN_PASSWORD, and the passwords tried
ADMIN_PASSWORD == "admin"

Passwords == {ADMIN_PASSWORD, "guess"}

\* the value of the auth_session cookie of a request: the decimal text of a
\* number, or text that parseInt cannot read; NoCookie when there is none
NoCookie == [present |-> FALSE, digits |-> FALSE, value |-> 0]

Token(value) == [present |-> TRUE, digits |-> TRUE, value |-> value]

Garbage == [present |-> TRUE, digits |-> FALSE, value |-> 0]

\* authMiddleware(request, env): parseInt gives NaN for text without digits
authMiddleware(cookie, clock) ==
    /\ cookie.present
    /\ cookie.digits
    /\ clock - cookie.value < SESSION_DURATION

\* the routes behind authMiddleware
ProtectedPaths == {"/data", "/subs", "/migrate"}

Cookies == {NoCookie, Garbage} \cup {Token(t) : t \in 0..MaxClock}

InitSessions ==
    /\ pc = "idle"
    /\ op = "none"
    /\ NoServer
    /\ NoCore
    /\ NoManualNodes
    /\ NoGenerator
    /\ NoDashboard
    /\ NoUpdating
    /\ NoPersistence

\* what the session routes leave alone
sessionsFrame == <<pc, coreVars, uiVars, genVars, dashVars, asyncVars, kv, sent, persistVars>>

\* an hour passes
Tick ==
    /\ now < MaxClock
    /\ now' = now + 1
    /\ UNCHANGED <<op, sessionsFrame, reqs, issued, reply>>

\* POST /api/login with a password: the cookie set is String(Date.now())
Login(pw) ==
    /\ Cardinality(issued) < MaxLogins
    /\ op' = "login"
    /\ reqs' = [api |-> [path |-> "/login", cookie |-> NoCookie]]
    /\ IF pw = ADMIN_PASSWORD
       THEN /\ issued' = issued \cup {Token(now)}
            /\ reply' = [status |-> 200, message |-> "success"]
       ELSE /\ issued' = issued
            /\ reply' = [status |-> 401, message |-> "wrong password"]
    /\ UNCHANGED <<sessionsFrame, now>>

\* a request to a protected route, up to the verdict of authMiddleware; what
\* the route then does is left to the other specifications
Protected(path, cookie) ==
    /\ op' = "protected"
    /\ reqs' = [api |-> [path |-> path, cookie |-> cookie]]
    /\ reply' = IF authMiddleware(cookie, now)
                THEN [status |-> 200, message |-> "handled"]
                ELSE [status |-> 401, message |-> "Unauthorized"]
    /\ UNCHANGED <<sessionsFrame, now, issued>>

NextSessions ==
    \/ Tick
    \/ \E pw \in Passwords : Login(pw)
    \/ \E path \in ProtectedPaths, cookie \in Cookies : Protected(path, cookie)

SpecSessions == InitSessions /\ [][NextSessions]_vars

(***************************** sessions: claims ****************************)

\* C28: a request to a protected /api route is authorized only if it
\* carries a session cookie whose value a successful /login with the admin
\* password has issued less than 8 hours (SESSION_DURATION) earlier; a
\* cookie value that no login ever issued is rejected with 401.
C28_OnlyIssuedSessions ==
    op = "protected" =>
        /\ reply.status # 401 =>
               /\ reqs.api.cookie \in issued
               /\ now - reqs.api.cookie.value < SESSION_DURATION
        /\ reqs.api.cookie \notin issued => reply.status = 401

(******************************** KV store *********************************)

OLD_KV_KEY == <<"sub_one_data_v1">>

KV_KEY_SUBS == <<"sub_one_subscriptions_v1">>

KV_KEY_PROFILES == <<"sub_one_profiles_v1">>

\* OLD_KV_KEY + '_migrated_on_' + new Date().toISOString()
MigratedKey(clock) == <<"sub_one_data_v1_migrated_on_", clock>>

\* a JSON value: an array with its items, or one of the values that are
\* false in a condition
Json(kind, items) == [kind |-> kind, items |-> items]

Array(items) == Json("array", items)

JsonNull == Json("null", <<>>)

JsonZero == Json("zero", <<>>)

Truthy(value) == value.kind = "array"

\* env.SUB_ONE_KV.get(key, 'json'): null for a key the namespace lacks
KvGet(store, key) == IF key \in DOMAIN store THEN store[key] ELSE JsonNull

\* env.SUB_ONE_KV.put(key, JSON.stringify(value))
KvPut(store, key, value) ==
    [k \in DOMAIN store \cup {key} |-> IF k = key THEN value ELSE store[k]]

\* env.SUB_ONE_KV.delete(key)
KvDelete(store, key) == [k \in DOMAIN store \ {key} |-> store[k]]

\* a namespace holding the given values; Absent stands for no key
Absent == Json("absent", <<>>)

KvOf(old, subsValue, profilesValue) ==
    LET all == (OLD_KV_KEY :> old) @@ (KV_KEY_SUBS :> subsValue)
                   @@ (KV_KEY_PROFILES :> profilesValue)
    IN [k \in {x \in DOMAIN all : all[x] # Absent} |-> all[k]]

(******************************** migration ********************************)

\* the /api/migrate handler without the test of the new key
migrateAlways(store, clock) ==
    LET oldData == KvGet(store, OLD_KV_KEY)
    IN IF ~Truthy(oldData)
       THEN [kv |-> store, reply |-> [status |-> 404, message |-> "no old data"]]
       ELSE [kv |-> KvDelete(KvPut(KvPut(KvPut(store, KV_KEY_SUBS, oldData),
                                         KV_KEY_PROFILES, Array(<<>>)),
                                   MigratedKey(clock), oldData),
                             OLD_KV_KEY),
             reply |-> [status |-> 200, message |-> "migrated"]]

\* the /api/migrate handler of an authorized request: the namespace it
\* leaves and its response
migrate(store, clock) ==
    LET oldData == KvGet(store, OLD_KV_KEY)
        newDataExists == KV_KEY_SUBS \in DOMAIN store
    IN IF newDataExists
       THEN [kv |-> store, reply |-> [status |-> 200, message |-> "no migration needed"]]
       ELSE IF ~Truthy(oldData)
       THEN [kv |-> store, reply |-> [status |-> 404, message |-> "no old data"]]
       ELSE [kv |-> KvDelete(KvPut(KvPut(KvPut(store, KV_KEY_SUBS, oldData),
                                         KV_KEY_PROFILES, Array(<<>>)),
                                   MigratedKey(clock), oldData),
                             OLD_KV_KEY),
             reply |-> [status |-> 200, message |-> "migrated"]]

\* the lists a dashboard saves, and the data of the old structure
SavedLists == {<<>>, <<[id |-> 1]>>, <<[id |-> 1], [id |-> 2]>>}

OldValues == {Absent, JsonNull, JsonZero} \cup {Array(l) : l \in SavedLists}

InitMigrate ==
    /\ pc = "idle"
    /\ op = "none"
    /\ \E old \in OldValues, subsValue \in {Absent} \cup {Array(l) : l \in SavedLists},
          profilesValue \in {Absent, Array(<<>>)} :
           kv = KvOf(old, subsValue, profilesValue)
    /\ now = 0
    /\ reqs = NoRequests
    /\ sent = <<>>
    /\ issued = {}
    /\ reply = NoReply
    /\ NoCore
    /\ NoManualNodes
    /\ NoGenerator
    /\ NoDashboard
    /\ NoUpdating
    /\ NoPersistence

\* what the migration and the save leave alone
migrateFrame == <<pc, coreVars, uiVars, genVars, dashVars, asyncVars, reqs, sent, issued, persistVars>>

\* time passes between two requests
TickMigrate ==
    /\ now < MaxClock
    /\ now' = now + 1
    /\ UNCHANGED <<op, migrateFrame, kv, reply>>

\* /api/migrate
Migrate ==
    /\ \E r \in {migrate(kv, now)} :
           /\ kv' = r.kv
           /\ reply' = r.reply
    /\ op' = "migrate"
    /\ UNCHANGED <<migrateFrame, now>>

\* /api/subs with the lists of the dashboard: both keys are written
SaveLists(list) ==
    /\ kv' = KvPut(KvPut(kv, KV_KEY_SUBS, Array(list)), KV_KEY_PROFILES, Array(<<>>))
    /\ reply' = [status |-> 200, message |-> "saved"]
    /\ op' = "subs"
    /\ UNCHANGED <<migrateFrame, now>>

NextMigrate ==
    \/ TickMigrate
    \/ Migrate
    \/ \E list \in SavedLists : SaveLists(list)

SpecMigrate == InitMigrate /\ [][NextMigrate]_vars

(**************************** migration: claims ****************************)

\* a migration has succeeded: it has left its dated copy of the old data
Migrated(store) == \E k \in DOMAIN store : k[1] = "sub_one_data_v1_migrated_on_"

\* C27: /api/migrate is safely repeatable: a successful migration leaves
\* the old data under the new subscriptions key and removes the old key;
\* every later /api/migrate call reports that no migration is needed and
\* changes no KV key; a call made when neither old nor new data exists
\* changes nothing and reports not found.
C27_MigrateRepeatable ==
    [][(op' = "migrate" /\ now' = now) =>
          /\ reply'.message = "migrated" =>
                 /\ kv'[KV_KEY_SUBS] = kv[OLD_KV_KEY]
                 /\ OLD_KV_KEY \notin DOMAIN kv'
          /\ Migrated(kv) =>
                 /\ reply'.message = "no migration needed"
                 /\ kv' = kv
          /\ (OLD_KV_KEY \notin DOMAIN kv /\ KV_KEY_SUBS \notin DOMAIN kv) =>
                 /\ reply'.status = 404
                 /\ kv' = kv]_vars

\* a second /api/migrate after a successful one has answered
C27_Witness ==
    /\ op = "migrate"
    /\ Migrated(kv)
    /\ reply.message = "no migration needed"

(************************* stored subscription list ************************)

\* a stored subscription
StoredSub(id, url, enabled) ==
    [id |-> id, url |-> url, enabled |-> enabled, nodeCount |-> 0, userInfo |-> "undefined"]

\* sub.url.startsWith('http')
startsWithHttp(url) == url \in SubUrls

\* the list in the namespace before the requests, and the lists a dashboard
\* sends to /api/subs
StoredLists ==
    { <<StoredSub(1, "http://a", TRUE)>>,
      <<StoredSub(1, "http://a", TRUE), StoredSub(2, "https://b", FALSE)>> }

PostedLists ==
    { <<>>,
      <<StoredSub(1, "https://b", TRUE)>>,
      <<StoredSub(2, "https://b", TRUE), StoredSub(1, "http://a", TRUE)>>,
      <<StoredSub(3, "http://c", TRUE), StoredSub(1, "http://a", TRUE)>> }

\* a request that has not begun, with the local variables of its handler
Idle == [pc |-> "idle", allSubs |-> <<>>, arg |-> <<>>, changesMade |-> FALSE]

Requests == {"subs", "cron", "batch_update_nodes", "node_count"}

\* the fetches of a subscription link: both succeed, with the user info
\* header and the node list of the link, or both fail
fetched(sub, ok) ==
    IF ok THEN [sub EXCEPT !.nodeCount = NodeCountOf(sub.url).count,
                           !.userInfo = NodeCountOf(sub.url).userInfo]
    ELSE sub

\* the loop of handleCronTrigger over allSubs
cronLoop(allSubs, ok) ==
    [i \in 1..Len(allSubs) |->
        IF startsWithHttp(allSubs[i].url) /\ allSubs[i].enabled
        THEN fetched(allSubs[i], ok) ELSE allSubs[i]]

\* updatePromises of /batch_update_nodes over subsToUpdate
batchLoop(allSubs, subscriptionIds, ok) ==
    [i \in 1..Len(allSubs) |->
        IF allSubs[i].id \in subscriptionIds /\ startsWithHttp(allSubs[i].url)
        THEN fetched(allSubs[i], ok) ELSE allSubs[i]]

\* allSubs.find(s => s.url === subUrl) of /node_count, and the update of it
countUpdate(allSubs, subUrl) ==
    LET hits == {i \in 1..Len(allSubs) : allSubs[i].url = subUrl}
        first == CHOOSE i \in hits : \A j \in hits : i <= j
    IN IF hits = {} THEN allSubs
       ELSE [allSubs EXCEPT ![first] = fetched(@, TRUE)]

\* the list under KV_KEY_SUBS, [] when the key is missing
storedSubs(store) ==
    IF Truthy(KvGet(store, KV_KEY_SUBS)) THEN KvGet(store, KV_KEY_SUBS).items ELSE <<>>

InitStore ==
    /\ pc = "idle"
    /\ op = "none"
    /\ \E list \in StoredLists : kv = KvOf(Absent, Array(list), Array(<<>>))
    /\ reqs = [r \in Requests |-> Idle]
    /\ now = 0
    /\ sent = <<>>
    /\ issued = {}
    /\ reply = NoReply
    /\ NoCore
    /\ NoManualNodes
    /\ NoGenerator
    /\ NoDashboard
    /\ NoUpdating
    /\ NoPersistence

\* what the requests on the stored list leave alone
storeFrame == <<pc, coreVars, uiVars, genVars, dashVars, asyncVars, now, sent, issued, reply, persistVars>>

\* a request moves on: its local variables and the namespace change
Step(r, local, store) ==
    /\ reqs' = [reqs EXCEPT ![r] = local]
    /\ kv' = store
    /\ op' = r
    /\ UNCHANGED storeFrame

\* /api/subs: the posted lists are written
SubsPut(list) ==
    /\ reqs["subs"].pc = "idle"
    /\ Step("subs", [Idle EXCEPT !.pc = "done", !.arg = list],
            KvPut(KvPut(kv, KV_KEY_SUBS, Array(list)), KV_KEY_PROFILES, Array(<<>>)))

\* handleCronTrigger: the list is read and copied
CronGet ==
    /\ reqs["cron"].pc = "idle"
    /\ Step("cron", [Idle EXCEPT !.pc = "fetching", !.allSubs = storedSubs(kv)], kv)

\* handleCronTrigger: the fetches of the loop have settled
CronFetched(ok) ==
    /\ reqs["cron"].pc = "fetching"
    /\ \E updated \in {cronLoop(reqs["cron"].allSubs, ok)} :
           Step("cron", [reqs["cron"] EXCEPT !.pc = "fetched", !.allSubs = updated,
                                             !.changesMade =
                                                 ok /\ \E i \in 1..Len(updated) :
                                                           /\ startsWithHttp(updated[i].url)
                                                           /\ updated[i].enabled],
                kv)

\* handleCronTrigger: the copy is written back if changes were made
CronPut ==
    /\ reqs["cron"].pc = "fetched"
    /\ Step("cron", [reqs["cron"] EXCEPT !.pc = "done"],
            IF reqs["cron"].changesMade
            THEN KvPut(kv, KV_KEY_SUBS, Array(reqs["cron"].allSubs)) ELSE kv)

\* /api/batch_update_nodes: the list is read
BatchGet(subscriptionIds) ==
    /\ reqs["batch_update_nodes"].pc = "idle"
    /\ Step("batch_update_nodes",
            [Idle EXCEPT !.pc = "fetching", !.allSubs = storedSubs(kv), !.arg = subscriptionIds],
            kv)

\* /api/batch_update_nodes: the update promises have settled
BatchFetched(ok) ==
    /\ reqs["batch_update_nodes"].pc = "fetching"
    /\ \E updated \in {batchLoop(reqs["batch_update_nodes"].allSubs,
                                 reqs["batch_update_nodes"].arg, ok)} :
           Step("batch_update_nodes",
                [reqs["batch_update_nodes"] EXCEPT !.pc = "fetched", !.allSubs = updated], kv)

\* /api/batch_update_nodes: the list read is written back
BatchPut ==
    /\ reqs["batch_update_nodes"].pc = "fetched"
    /\ Step("batch_update_nodes", [reqs["batch_update_nodes"] EXCEPT !.pc = "done"],
            KvPut(kv, KV_KEY_SUBS, Array(reqs["batch_update_nodes"].allSubs)))

\* /api/node_count: the fetches of the link have settled; without user info
\* and without a node the namespace is left alone
CountFetched(subUrl, ok) ==
    /\ reqs["node_count"].pc = "idle"
    /\ Step("node_count",
            [Idle EXCEPT !.pc = IF ok THEN "fetched" ELSE "done", !.arg = subUrl], kv)

\* /api/node_count: the list is read and the subscription of the link updated
CountGet ==
    /\ reqs["node_count"].pc = "fetched"
    /\ \E updated \in {countUpdate(storedSubs(kv), reqs["node_count"].arg)} :
           Step("node_count",
                [reqs["node_count"] EXCEPT !.pc = "read", !.allSubs = updated,
                     !.changesMade = \E i \in 1..Len(updated) :
                                         updated[i].url = reqs["node_count"].arg],
                kv)

\* /api/node_count: the list read is written back if the link was found
CountPut ==
    /\ reqs["node_count"].pc = "read"
    /\ Step("node_count", [reqs["node_count"] EXCEPT !.pc = "done"],
            IF reqs["node_count"].changesMade
            THEN KvPut(kv, KV_KEY_SUBS, Array(reqs["node_count"].allSubs)) ELSE kv)

NextStore ==
    \/ \E list \in PostedLists : SubsPut(list)
    \/ CronGet
    \/ \E ok \in BOOLEAN : CronFetched(ok)
    \/ CronPut
    \/ \E subscriptionIds \in SUBSET {1, 2} : BatchGet(subscriptionIds)
    \/ \E ok \in BOOLEAN : BatchFetched(ok)
    \/ BatchPut
    \/ \E subUrl \in SubUrls, ok \in BOOLEAN : CountFetched(subUrl, ok)
    \/ CountGet
    \/ CountPut

SpecStore == InitStore /\ [][NextStore]_vars

(************************ stored subscription list: claims *****************)

\* the ids and the links of a list
IdsAndUrls(list) == [i \in 1..Len(list) |-> <<list[i].id, list[i].url>>]

\* the save has completed and no request is in flight
AllCompleted ==
    /\ reqs["subs"].pc = "done"
    /\ \A r \in Requests : reqs[r].pc \in {"idle", "done"}

\* C29: no lost update on the stored subscription list: for any
\* interleaving of an /api/subs save with a cron trigger, a
\* /api/batch_update_nodes or a /api/node_count request, once all requests
\* have completed the stored list holds exactly the subscriptions of the
\* save (same ids and links), never the list read before the save.
C29_NoLostUpdate ==
    AllCompleted => IdsAndUrls(storedSubs(kv)) = IdsAndUrls(reqs["subs"].arg)

(****************************** notifications ******************************)

\* the ticks of the clock in a run, and the most Telegram messages of a run
MaxTicks == 2

MaxSent == 2

\* 24 * 60 * 60 * 1000 ms, the clock counting hours
ONE_DAY_MS == 24

\* defaultSettings
NotifyThresholdDays == 3

NotifyThresholdPercent == 90

\* the hour at which the run begins, and the hours of a tick
InitialHour == 4 * ONE_DAY_MS

HoursPerTick == ONE_DAY_MS \div 2

\* the subscription-userinfo header of the provider: two days left at the
\* beginning and 95 % of the traffic used; NoInfo when there is no header
NoInfo == [present |-> FALSE, expire |-> 0, upload |-> 0, download |-> 0, total |-> 0]

UpstreamInfo ==
    [present |-> TRUE, expire |-> InitialHour + 48, upload |-> 50, download |-> 45,
     total |-> 100]

\* a stored subscription with the times of its last reminders, 0 for none
NotifiedSub(userInfo, lastNotifiedExpire, lastNotifiedTraffic) ==
    [id |-> 1, url |-> "http://a", enabled |-> TRUE, userInfo |-> userInfo,
     lastNotifiedExpire |-> lastNotifiedExpire, lastNotifiedTraffic |-> lastNotifiedTraffic]

\* Math.ceil((expiryDate.getTime() - now) / ONE_DAY_MS)
daysRemaining(expire, clock) == -((clock - expire) \div ONE_DAY_MS)

\* Math.round((used / total) * 100)
usagePercent(info) == (200 * (info.upload + info.download) + info.total) \div (2 * info.total)

\* the conditions under which checkAndNotify sends the expiry reminder and
\* the traffic warning, clock being the now it took when it began
expiryDue(sub, clock) ==
    /\ sub.userInfo.present
    /\ sub.userInfo.expire # 0
    /\ daysRemaining(sub.userInfo.expire, clock) <= NotifyThresholdDays
    /\ sub.lastNotifiedExpire = 0 \/ clock - sub.lastNotifiedExpire > ONE_DAY_MS

trafficDue(sub, clock) ==
    /\ sub.userInfo.present
    /\ sub.userInfo.total > 0
    /\ usagePercent(sub.userInfo) >= NotifyThresholdPercent
    /\ sub.lastNotifiedTraffic = 0 \/ clock - sub.lastNotifiedTraffic > ONE_DAY_MS

\* checkAndNotify(sub, settings, env) up to its first await
checkAndNotify(sub, clock) ==
    IF expiryDue(sub, clock) THEN "sendingExpire"
    ELSE IF trafficDue(sub, clock) THEN "sendingTraffic"
    ELSE "end"

\* a handler that is not running; its sub is the object it works on and
\* began is the now of its checkAndNotify
NoHandler == [pc |-> "idle", sub |-> NotifiedSub(NoInfo, 0, 0), began |-> 0, changesMade |-> FALSE]

Handlers == {"cron", "subs"}

\* the one subscription under KV_KEY_SUBS
storedSub(store) == storedSubs(store)[1]

InitNotify ==
    /\ pc = "idle"
    /\ op = "none"
    /\ \E lastNotifiedExpire \in {0, InitialHour - 30, InitialHour - 6} :
           kv = KvOf(Absent, Array(<<NotifiedSub(UpstreamInfo, lastNotifiedExpire, 0)>>),
                     Array(<<>>))
    /\ subscriptions = storedSubs(kv)
    /\ now = InitialHour
    /\ reqs = [h \in Handlers |-> NoHandler]
    /\ sent = <<>>
    /\ issued = {}
    /\ reply = NoReply
    /\ subsCurrentPage = 1
    /\ profiles = <<>>
    /\ profilesCurrentPage = 1
    /\ uuids = 0
    /\ NoCore
    /\ NoManualNodes
    /\ NoGenerator
    /\ NoUpdating
    /\ NoPersistence

\* what the notifications leave alone
notifyFrame == <<pc, coreVars, uiVars, genVars, asyncVars, subsCurrentPage, profiles,
                 profilesCurrentPage, uuids, issued, reply, persistVars>>

\* twelve hours pass
TickNotify ==
    /\ now < InitialHour + MaxTicks * HoursPerTick
    /\ now' = now + HoursPerTick
    /\ UNCHANGED <<op, notifyFrame, kv, reqs, sent, subscriptions>>

\* the dashboard loads /api/data
LoadData ==
    /\ subscriptions' = storedSubs(kv)
    /\ op' = "data"
    /\ UNCHANGED <<notifyFrame, kv, reqs, sent, now>>

\* handleCronTrigger: the list is read and copied
CronTriggerGet ==
    /\ reqs["cron"].pc = "idle"
    /\ Len(sent) < MaxSent
    /\ reqs' = [reqs EXCEPT !["cron"] = [NoHandler EXCEPT !.pc = "fetching",
                                                          !.sub = storedSub(kv)]]
    /\ op' = "cron"
    /\ UNCHANGED <<notifyFrame, kv, sent, now, subscriptions>>

\* handleCronTrigger: the traffic request has settled; with a user info
\* header the info is stored in the copy and checkAndNotify begins
CronTrafficSettled(header) ==
    /\ reqs["cron"].pc = "fetching"
    /\ LET sub == IF header THEN [reqs["cron"].sub EXCEPT !.userInfo = UpstreamInfo]
                  ELSE reqs["cron"].sub
       IN reqs' = [reqs EXCEPT !["cron"] =
                      [pc |-> IF header THEN checkAndNotify(sub, now) ELSE "end",
                       sub |-> sub, began |-> now, changesMade |-> header]]
    /\ op' = "cron"
    /\ UNCHANGED <<notifyFrame, kv, sent, now, subscriptions>>

\* /api/subs with the list of the dashboard: checkAndNotify begins on the
\* posted object and the list is written as it was posted
SubsPost ==
    /\ reqs["subs"].pc = "idle"
    /\ Len(sent) < MaxSent
    /\ subscriptions # <<>>
    /\ reqs' = [reqs EXCEPT !["subs"] =
                   [pc |-> checkAndNotify(subscriptions[1], now), sub |-> subscriptions[1],
                    began |-> now, changesMade |-> FALSE]]
    /\ kv' = KvPut(KvPut(kv, KV_KEY_SUBS, Array(subscriptions)), KV_KEY_PROFILES, Array(<<>>))
    /\ op' = "subs"
    /\ UNCHANGED <<notifyFrame, sent, now, subscriptions>>

\* sendTgNotification settles in checkAndNotify: a delivered message is
\* logged and its time stamp is written to the object of the handler
SendSettled(h, ok) ==
    /\ reqs[h].pc \in {"sendingExpire", "sendingTraffic"}
    /\ LET expiry == reqs[h].pc = "sendingExpire"
           sub == IF ~ok THEN reqs[h].sub
                  ELSE IF expiry THEN [reqs[h].sub EXCEPT !.lastNotifiedExpire = reqs[h].began]
                  ELSE [reqs[h].sub EXCEPT !.lastNotifiedTraffic = reqs[h].began]
       IN /\ reqs' = [reqs EXCEPT ![h].sub = sub,
                                  ![h].pc = IF expiry /\ trafficDue(sub, reqs[h].began)
                                            THEN "sendingTraffic" ELSE "end"]
          /\ sent' = IF ok THEN Append(sent, [id |-> sub.id, expiry |-> expiry, at |-> now])
                     ELSE sent
    /\ op' = h
    /\ UNCHANGED <<notifyFrame, kv, now, subscriptions>>

\* handleCronTrigger: the copy is written back if changes were made
CronTriggerPut ==
    /\ reqs["cron"].pc = "end"
    /\ kv' = IF reqs["cron"].changesMade
             THEN KvPut(kv, KV_KEY_SUBS, Array(<<reqs["cron"].sub>>)) ELSE kv
    /\ reqs' = [reqs EXCEPT !["cron"] = NoHandler]
    /\ op' = "cron"
    /\ UNCHANGED <<notifyFrame, sent, now, subscriptions>>

\* the notifications of /api/subs are over: nothing is written
SubsEnd ==
    /\ reqs["subs"].pc = "end"
    /\ reqs' = [reqs EXCEPT !["subs"] = NoHandler]
    /\ op' = "subs"
    /\ UNCHANGED <<notifyFrame, kv, sent, now, subscriptions>>

NextNotify ==
    \/ TickNotify
    \/ LoadData
    \/ CronTriggerGet
    \/ \E header \in BOOLEAN : CronTrafficSettled(header)
    \/ SubsPost
    \/ \E h \in Handlers, ok \in BOOLEAN : SendSettled(h, ok)
    \/ CronTriggerPut
    \/ SubsEnd

SpecNotify == InitNotify /\ [][NextNotify]_vars

(************************** notifications: claims **************************)

\* C24: notification throttling: for a subscription, across any sequence
\* and interleaving of cron triggers and /api/subs saves, two expiry
\* reminders, and likewise two traffic warnings, are never delivered less
\* than 24 hours apart.
C24_RemindersDayApart ==
    \A i, j \in 1..Len(sent) :
        (i < j /\ sent[i].id = sent[j].id /\ sent[i].expiry = sent[j].expiry)
            => sent[j].at - sent[i].at >= ONE_DAY_MS

(***************************** profile request *****************************)

\* DEFAULT_EXPIRED_NODE, and the only target of an expired profile
DEFAULT_EXPIRED_NODE == Url("trojan", UriBody(<<"0">>, <<"l">>, 443, NoQuery), <<<<"x">>>>)

ExpiredTarget == [id |-> 0, url |-> DEFAULT_EXPIRED_NODE, name |-> <<"x">>, isExpiredNode |-> TRUE]

\* an item of the stored list: a source with its id and its switch
Item(id, enabled, source) ==
    [id |-> id, enabled |-> enabled, name |-> source.name, url |-> source.url,
     exclude |-> source.exclude, response |-> source.response]

\* item.url.startsWith('http')
isSubscription(item) == item.url.scheme \in {"http", "https"}

\* profile.expiresAt: no date, or the hour at which the date begins
NoDate == [set |-> FALSE, at |-> 0]

Date(at) == [set |-> TRUE, at |-> at]

\* now > expiryDate, for a profile that has a date
isProfileExpired(profile, clock) == profile.expiresAt.set /\ clock > profile.expiresAt.at

\* targetSubs of a profile that never expires
targetSubsUnexpired(allSubs, profile, clock) ==
    LET belongs(item) ==
            /\ \/ isSubscription(item) /\ item.id \in profile.subscriptions
               \/ ~isSubscription(item) /\ item.id \in profile.manualNodes
            /\ item.enabled
    IN SelectSeq(allSubs, belongs)

\* targetSubs of handleSubRequest for an enabled profile
targetSubsOf(allSubs, profile, clock) ==
    IF isProfileExpired(profile, clock) THEN <<ExpiredTarget>>
    ELSE LET belongs(item) ==
                 /\ \/ isSubscription(item) /\ item.id \in profile.subscriptions
                    \/ ~isSubscription(item) /\ item.id \in profile.manualNodes
                 /\ item.enabled
         IN SelectSeq(allSubs, belongs)

\* allProfiles.find(p => (p.customId && p.customId === id) || p.id === id)
findProfile(allProfiles, identifier) ==
    LET hits == {i \in 1..Len(allProfiles) :
                    \/ allProfiles[i].customId # "" /\ allProfiles[i].customId = identifier
                    \/ allProfiles[i].id = identifier}
    IN IF hits = {} THEN 0 ELSE CHOOSE i \in hits : \A j \in hits : i <= j

\* the stored lists of the request: a manual node and a subscription, and
\* one profile
ServedManual ==
    { Source(<<"a">>, u, <<>>, NoResponse) :
        u \in { Url("trojan", PlainBody(<<"h">>, 443), <<<<"a">>>>),
                Url("vless", PlainBody(<<"h">>, 443), <<<<"k">>>>) } }

ServedHttp ==
    { Source(<<"a">>, Url("https", PlainBody(<<"h">>, 443), <<>>), <<>>,
             [status |-> "ok", text |-> t]) :
        t \in {x \in FetchedTexts : x.lines # <<>>} }

RequestHour == InitialHour

ServedProfiles ==
    { [id |-> "p1", customId |-> c, enabled |-> e, expiresAt |-> d, subscriptions |-> s,
       manualNodes |-> m] :
        c \in {"vip"}, e \in BOOLEAN,
        d \in {NoDate, Date(RequestHour - 1), Date(RequestHour)},
        s \in {{}, {2}, {1, 2}}, m \in {{}, {1}, {1, 2}} }

InitServe ==
    /\ pc = "request"
    /\ op = "handleSubRequest"
    /\ \E e1, e2 \in BOOLEAN, m \in ServedManual, h \in ServedHttp, p \in ServedProfiles :
           kv = KvOf(Absent, Array(<<Item(1, e1, m), Item(2, e2, h)>>), Array(<<p>>))
    /\ now = RequestHour
    /\ reqs \in {[sub |-> [token |-> t, profileIdentifier |-> i]] :
                    t \in {"profileToken"}, i \in {"p1", "vip"}}
    /\ reply = NoReply
    /\ sent = <<>>
    /\ issued = {}
    /\ inContent = BaseContent
    /\ inNodes = <<>>
    /\ inSubName = <<>>
    /\ inOptions \in { [exclude |-> <<>>, prependSubName |-> b] : b \in BOOLEAN }
    /\ attempts = <<>>
    /\ filtered = <<>>
    /\ returned = <<>>
    /\ raised = FALSE
    /\ subs = <<>>
    /\ NoManualNodes
    /\ NoGenerator
    /\ NoDashboard
    /\ NoUpdating
    /\ NoPersistence

serveFrame == <<uiVars, genVars, dashVars, asyncVars, persistVars>>

\* handleSubRequest for /{token}/{profileIdentifier}, the token being
\* config.profileToken, up to its call of generateCombinedNodeList
HandleSubRequest ==
    /\ pc = "request" /\ op = "handleSubRequest"
    /\ LET allSubs == storedSubs(kv)
           allProfiles == KvGet(kv, KV_KEY_PROFILES).items
           index == findProfile(allProfiles, reqs.sub.profileIdentifier)
       IN IF index # 0 /\ allProfiles[index].enabled
          THEN /\ subs' = targetSubsOf(allSubs, allProfiles[index], now)
               /\ pc' = "call"
               /\ op' = "generateCombinedNodeList"
               /\ reply' = reply
          ELSE /\ subs' = subs
               /\ pc' = "done"
               /\ op' = op
               /\ reply' = [status |-> 404, message |-> "Profile not found or disabled"]
    /\ UNCHANGED <<inContent, inNodes, inSubName, inOptions, attempts, filtered, returned, raised,
                   kv, now, reqs, sent, issued, serveFrame>>

NextServe == HandleSubRequest \/ GenerateCombinedNodeList

SpecServe == InitServe /\ [][NextServe]_vars

(************************* profile request: claims *************************)

\* the profile of the request, and the nodes one stored item gives
ServedProfile ==
    KvGet(kv, KV_KEY_PROFILES).items[
        findProfile(KvGet(kv, KV_KEY_PROFILES).items, reqs.sub.profileIdentifier)]

NodesOfItem(item) ==
    IF isHttpSub(item) THEN fetchAndParse(item, inOptions.prependSubName)
    ELSE processNodes(parseNodeLines(<<item.url>>), ManualLabel,
                      [exclude |-> <<>>, prependSubName |-> inOptions.prependSubName]).nodes

Belongs(item, profile) ==
    item.id \in profile.subscriptions \cup profile.manualNodes

Served == op = "generateCombinedNodeList" /\ pc = "done"

MaxInFlight == 2

MaxTimers == 2

\* a subscription of the dashboard list
DashSub(id, enabled, nodeCount, isUpdating) ==
    [id |-> id, enabled |-> enabled, nodeCount |-> nodeCount, isUpdating |-> isUpdating]

\* const { isUpdating, ...rest } = sub
rest(sub) == [id |-> sub.id, enabled |-> sub.enabled, nodeCount |-> sub.nodeCount]

Rest(list) == [i \in 1..Len(list) |-> rest(list[i])]

\* the body of saveSubs(combinedSubs, profiles.value)
SaveBody(list, nodes, groups) == [subs |-> Rest(list) \o Rest(nodes), profiles |-> groups]

combinedSubs == SaveBody(subscriptions, manualNodes, profiles)

\* the lists the server holds
storedData(store) ==
    [subs |-> KvGet(store, KV_KEY_SUBS).items, profiles |-> KvGet(store, KV_KEY_PROFILES).items]

\* the dashboard has loaded what the server holds
InitPersist ==
    /\ pc = "idle"
    /\ op = "none"
    /\ \E e \in BOOLEAN, n \in 0..1 : subscriptions = <<DashSub(1, e, n, FALSE)>>
    /\ subsCurrentPage = 1
    /\ profiles = <<>>
    /\ profilesCurrentPage = 1
    /\ uuids = 1
    /\ kv = KvOf(Absent, Array(Rest(subscriptions)), Array(profiles))
    /\ now = 0
    /\ reqs = <<>>
    /\ sent = <<>>
    /\ issued = {}
    /\ reply = NoReply
    /\ dirty = FALSE
    /\ saveState = "idle"
    /\ timers = 0
    /\ NoCore
    /\ NoManualNodes
    /\ NoGenerator
    /\ NoUpdating

persistFrame == <<pc, coreVars, uiVars, genVars, subsCurrentPage, profiles, profilesCurrentPage,
                  uuids, asyncVars, now, sent, issued, reply>>

\* handleSave up to its await: the body is built and the request leaves
handleSave(list) ==
    /\ Len(reqs) < MaxInFlight
    /\ saveState' = "saving"
    /\ reqs' = Append(reqs, SaveBody(list, manualNodes, profiles))

\* handleSubscriptionToggle: the switch is flipped, which runs the watcher
\* of the lists, and handleDirectSave starts
HandleSubscriptionToggle ==
    /\ subscriptions' = [subscriptions EXCEPT ![1].enabled = ~subscriptions[1].enabled]
    /\ dirty' = TRUE
    /\ handleSave(subscriptions')
    /\ op' = "handleSubscriptionToggle"
    /\ UNCHANGED <<persistFrame, kv, timers>>

\* handleSubscriptionUpdate up to its await: handleUpdateNodeCount marks
\* the subscription and asks for its count
HandleSubscriptionUpdate ==
    /\ ~subscriptions[1].isUpdating
    /\ subscriptions' = [subscriptions EXCEPT ![1].isUpdating = TRUE]
    /\ dirty' = TRUE
    /\ op' = "handleSubscriptionUpdate"
    /\ UNCHANGED <<persistFrame, kv, reqs, saveState, timers>>

\* fetchNodeCount has answered: the count is stored, which runs the
\* watcher of the lists, and handleDirectSave starts
NodeCountSettled(count) ==
    /\ subscriptions[1].isUpdating
    /\ subscriptions' = [subscriptions EXCEPT ![1].nodeCount = count, ![1].isUpdating = FALSE]
    /\ dirty' = TRUE
    /\ handleSave(subscriptions')
    /\ op' = "handleUpdateNodeCount"
    /\ UNCHANGED <<persistFrame, kv, timers>>

\* the i-th request in flight is answered: handleSave goes on after its
\* await, and the watcher of saveState runs when saveState has changed
SaveSubsSettled(i, ok) ==
    /\ i \in 1..Len(reqs)
    /\ reqs' = SubSeq(reqs, 1, i - 1) \o SubSeq(reqs, i + 1, Len(reqs))
    /\ IF ok
       THEN /\ timers < MaxTimers
            /\ kv' = KvOf(Absent, Array(reqs[i].subs), Array(reqs[i].profiles))
            /\ saveState' = "success"
            /\ dirty' = IF saveState = "success" THEN dirty ELSE FALSE
            /\ timers' = IF saveState = "success" THEN timers ELSE timers + 1
       ELSE /\ saveState' = "idle"
            /\ UNCHANGED <<kv, dirty, timers>>
    /\ op' = "saveSubs"
    /\ UNCHANGED <<persistFrame, subscriptions>>

\* a callback of setTimeout(..., 1500) runs
ResetSaveState ==
    /\ timers > 0
    /\ timers' = timers - 1
    /\ saveState' = "idle"
    /\ op' = "setTimeout"
    /\ UNCHANGED <<persistFrame, subscriptions, kv, reqs, dirty>>

NextPersist ==
    \/ HandleSubscriptionToggle
    \/ HandleSubscriptionUpdate
    \/ \E count \in 0..1 : NodeCountSettled(count)
    \/ \E i \in 1..MaxInFlight, ok \in BOOLEAN : SaveSubsSettled(i, ok)
    \/ ResetSaveState

SpecPersist == InitPersist /\ [][NextPersist]_vars

(**************************** persistence: claims ****************************)

SaveStateMoves ==
    {<<"idle", "saving">>, <<"saving", "success">>, <<"saving", "idle">>, <<"success", "idle">>}

\* C30: the unsaved-changes flag is sound: whenever dirty is false the data
\* last saved successfully to the server equals the current subscriptions,
\* manual nodes and profiles, also when the data changes while a save is in
\* flight; and saveState only moves from idle to saving, from saving to
\* success or idle, and from success back to idle.
C30_DirtySound ==
    /\ [](~dirty => storedData(kv) = combinedSubs)
    /\ [][saveState' # saveState => <<saveState, saveState'>> \in SaveStateMoves]_vars

=============================================================================
